---- MODULE Spec2Model ----
(***************************************************************************)
(* ShopMatic storefront widget: the cart module (CartModule), the product  *)
(* service lookup it reads, the storage adapter it persists through, the   *)
(* ShopMatic facade's addToCart, the favorites module in its two            *)
(* implementations, the storage events and the wishlist grid.              *)
(*                                                                         *)
(* The browser runs one thread.  A synchronous handler is one action; an   *)
(* async function is cut at every await: the part up to the first await    *)
(* belongs to the action of the caller, and each continuation is an action *)
(* of its own that resumes a record of the sequence `tasks`.               *)
(*                                                                         *)
(* `await Promise.allSettled(tasks)` in updateCartUI waits on promises     *)
(* that are already resolved (findById is synchronous), so its             *)
(* continuation is a microtask: it runs before any timer, network answer   *)
(* or storage event is delivered, and only the rest of the running job     *)
(* (further synchronous calls) can come before it.  The other awaits       *)
(* (renderer, mini cart, storage load) wait on the host.                   *)
(***************************************************************************)
EXTENDS Integers, Sequences, FiniteSets, TLC

\* ------------------------------------------------------------------ bounds
Ids == {"a", "b"}          \* product ids in play
MaxStock == 2              \* catalog stock values are 0..MaxStock
MaxQty == 2                \* quantity arguments are -1..MaxQty
MaxTasks == 2              \* async executions in flight at once
MaxTimers == 2             \* handles the browser's timer table can hold
MaxStored == 2             \* entries of a cart another tab persisted
MaxLoads == 1              \* loadFromStorage executions in flight at once
MaxBurst == 2              \* unsaved mutations are counted up to this number
MaxFavs == 2               \* the favorites limit, when one is set (opts.max)
MaxImport == 3             \* length of an array passed to importFromArray
MaxFavLoads == 1           \* favorites loadFromStorage executions in flight at once
MaxCalls == 2              \* product service calls in flight at once
MaxRuns == 3               \* executions of _updateCartUI in flight at once

FavIds == Ids \cup {"c"}
NoId == "none"             \* targetId = null
Sku1Stock == 5             \* the stock of the product of the add/changeQty/remove example
Sku1Add == 3               \* the quantity the example adds
Sku1Qty == 10              \* the quantity the example asks changeQty for
MaxLines == 2               \* items of the cart at checkout
MaxImages == 3              \* images of a gallery
MaxSwaps == 2               \* swaps of the main image in flight
MaxNotes == 2               \* notifications shown
MaxRemovals == 2            \* removal timers of one notification pending at once
MaxCalled == 2              \* invocations of a callback that are counted
MaxListed == 2             \* products in the list the catalog page filters
NoFilters == [impl |-> "catalog", search |-> <<>>, category |-> <<>>, brand |-> <<>>, list |-> <<>>]
Absent == -1
Failed == -2               \* the request for a product was rejected or timed out               \* productService.findById(id) returned null

Stocks == 0..MaxStock
QtyArgs == -1..MaxQty
TimerIds == 1..MaxTimers

VARIABLES
  products,            \* ProductService._productMap: id -> stock, or Absent
  cart,                \* CartModule.cart: sequence of [name, qty, stock]
  pendingChangedIds,   \* CartModule._pendingChangedIds
  saveTimeout,         \* CartModule._saveTimeout: a timer handle, 0 for null
  timers,              \* the browser's pending setTimeout handles (cart save)
  storageCart,         \* localStorage[storageKey]: sequence of [name, qty, stock]
  tasks,               \* suspended async executions (loadFromStorage, updateCartUI)
  cartGrid,            \* CartModule.cartGrid is attached
  miniCartAsync,       \* miniCart.render returns a thenable
  completed,           \* the updateCartUI that completed in this step, if one did:
                       \* the cart:updated event it dispatched and the value it returned
  lastOp,              \* the public call made in this step, if one was: its name,
                       \* whether it returned a truthy value, whether it showed a
                       \* warning notification
  unsaved,             \* mutations applied since saveCart was last called (0..MaxBurst)
  owed,                \* ids mutated and not yet listed in a cart:updated event
  watch,               \* a mutation applied while an async execution was suspended
  favOpts,             \* FavoritesModule options: [max, overflow, debounce]
  favImpl,             \* which FavoritesModule this is: "module" (FavoritesModule.js)
                       \* or "checkout" (the class in CheckoutPage.js)
  favList,             \* FavoritesModule._list
  favSet,              \* FavoritesModule._set
  favLoads,            \* loadFromStorage executions suspended at their await: what
                       \* each read from storage
  favCall,             \* the favorites call made in this step, if one was
  wishDom,             \* WishlistModule: ids of the cards in the grid
  wishRemoving,        \* ids of the cards whose removal animation is running
  wishRefreshTimer,    \* WishlistModule._refreshTimer is armed
  wishStep,            \* what the wishlist's storage handler did in this step
  favSaveTimer,        \* FavoritesModule._saveTimer is armed
  favDestroyed,        \* FavoritesModule._destroyed
  storageFavs,         \* localStorage[favStorageKey]: sequence of ids
  favUnsaved,          \* a favorites mutation was made and saveFavs not called since
  favStep,             \* what this step did to the favorites
  productList,         \* ProductService.products: sequence of [name, stock]
  psCalls,             \* ProductService calls suspended at an await
  psDone,              \* the ProductService call that ran to its end in this step
  timeoutMs,           \* ProductService.opts.timeoutMs
  storageFault,        \* what is wrong with localStorage, "none" when nothing is
  rejected,            \* the functions whose promise was rejected so far
  faulted,             \* "cart"/"favs": its latest load in flight found localStorage at fault
  presenter,           \* CartPresenter: [updating, queued, queuedTargetId]
  presRuns,            \* executions of ctx._updateCartUI in flight, by target
  filters,             \* the catalog page: which class it is (impl: "catalog" for
                       \* Catalog, "shop" for ShopMatic), the values of its search,
                       \* category and brand controls, the product list; a text is
                       \* a sequence of characters
  shown,               \* the products the catalog filter last kept
  notif,               \* Notifications: [idCounter, maxVisible, notes], notes being
                       \* per notification id what show's closures and the maps hold
  gallery,             \* Gallery: images, current, _prevIndex, _animating, the main
                       \* image, the swaps in flight
  checkout,            \* CheckoutPage: the cart items, totalPrice, promoCode
  observed             \* which of the history records (completed, lastOp, unsaved,
                       \* owed, watch) are kept: a specification keeps the ones its
                       \* properties read, the others stay at their initial value

cartVars == <<products, cart, pendingChangedIds, saveTimeout, timers, storageCart,
              tasks, cartGrid, miniCartAsync, completed, lastOp,
              unsaved, owed, watch, observed>>

wishVars == <<wishDom, wishRemoving, wishRefreshTimer, wishStep>>

favVars == <<favOpts, favImpl, favList, favSet, favSaveTimer, favDestroyed, storageFavs,
             favUnsaved, favStep, favLoads, favCall, wishVars>>

presVars == <<presenter, presRuns>>

catVars == <<filters, shown>>

\* the other widgets of the page
pageVars == <<notif, gallery, checkout>>

\* what the cart, the favorites and the wishlist never touch
psVars == <<psCalls, psDone, timeoutMs>>

faultVars == <<storageFault, rejected, faulted>>

extVars == <<psVars, presVars, catVars, pageVars, faultVars>>

vars == <<cartVars, favVars, productList, extVars>>

\* ----------------------------------------------------------------- helpers
Max(x, y) == IF x >= y THEN x ELSE y
Min(x, y) == IF x <= y THEN x ELSE y

RemoveAt(s, i) == [j \in 1..(Len(s) - 1) |-> IF j < i THEN s[j] ELSE s[j + 1]]

Names(c) == {c[i].name : i \in DOMAIN c}

\* CartModule._findCartIndexById: the index of the item named id, 0 when none
\* (JavaScript: -1; indices here start at 1).
FindCartIndexById(c, id) ==
  IF \E i \in DOMAIN c : c[i].name = id
  THEN CHOOSE i \in DOMAIN c : c[i].name = id /\ \A j \in DOMAIN c : c[j].name = id => i <= j
  ELSE 0

\* CartModule._getCartQtyById
GetCartQtyById(c, id) ==
  LET i == FindCartIndexById(c, id) IN IF i > 0 THEN c[i].qty ELSE 0

\* this.cart.reduce((s, it) => s + Number(it.qty || 0), 0)
RECURSIVE TotalCount(_)
TotalCount(c) == IF c = <<>> THEN 0 ELSE Head(c).qty + TotalCount(Tail(c))

\* CartModule._normalizeCartItemFromProduct(prod, qty)
NormalizeCartItemOfOne(id, stock, qty) == [name |-> id, qty |-> 1, stock |-> stock]

NormalizeCartItemFromProduct(id, stock, qty) ==
  [name |-> id, qty |-> IF qty = 0 THEN 1 ELSE qty, stock |-> stock]

\* CartModule._mergeProductToItem(item, prod, true): the item after the merge
MergeProductToItem(item, stock) ==
  IF stock >= 0 /\ item.qty > stock
  THEN [item EXCEPT !.stock = stock, !.qty = Max(1, stock)]
  ELSE [item EXCEPT !.stock = stock]

\* whether _mergeProductToItem clamps the quantity (and notes the id as changed)
MergeClamps(item, stock) == stock >= 0 /\ item.qty > stock

\* CartModule._dedupeCart
RECURSIVE QtyOfKey(_, _)
QtyOfKey(c, k) ==
  IF c = <<>> THEN 0
  ELSE (IF Head(c).name = k THEN Head(c).qty ELSE 0) + QtyOfKey(Tail(c), k)

LastIndexOfKey(c, k) ==
  CHOOSE i \in DOMAIN c : c[i].name = k /\ \A j \in DOMAIN c : c[j].name = k => j <= i

ClampMerged(it) ==
  IF it.stock >= 0 /\ it.qty > it.stock
  THEN [it EXCEPT !.qty = Max(1, it.stock)]
  ELSE [it EXCEPT !.qty = Max(1, it.qty)]

DedupeCart(c) ==
  IF Len(c) < 2 THEN c
  ELSE LET idx == [i \in 1..Len(c) |-> i]
           firsts == SelectSeq(idx, LAMBDA i : FindCartIndexById(c, c[i].name) = i)
       IN [n \in 1..Len(firsts) |->
             LET k == c[firsts[n]].name
             IN ClampMerged([name |-> k, qty |-> QtyOfKey(c, k),
                             stock |-> c[LastIndexOfKey(c, k)].stock])]

\* StorageService._normalizeCartItem applied to every item (saveCart), then
\* JSON.stringify / JSON.parse: the fields kept are numbers and a string.
SavedForm(c) == [i \in 1..Len(c) |-> [name |-> c[i].name, qty |-> c[i].qty, stock |-> c[i].stock]]

\* --------------------------------------------------------- ghost records
Op(op, ret, warned) ==
  IF "lastOp" \in observed
  THEN [op |-> op, ret |-> ret, warned |-> warned]
  ELSE [op |-> "init", ret |-> FALSE, warned |-> FALSE]
Internal(op) == Op(op, FALSE, FALSE)
NoWatch == [id |-> NoId, present |-> FALSE]
NoDone == [op |-> "none", cause |-> "none"]
NoCompletion == [fired |-> FALSE, evTotalCount |-> 0, evCartQty |-> 0,
                 retTotalCount |-> 0, retCartQty |-> 0]

\* A suspended async execution: where it waits (pc), updateCartUI's targetId,
\* the ids whose products the bulk refresh looked up, the totalCount of step 2,
\* and what loadCartWithAvailability read (raw).
Task(pc, target, ids, total, raw) ==
  [pc |-> pc, target |-> target, ids |-> ids, total |-> total, raw |-> raw]

\* a continuation is queued as a microtask: findById and a cached fetchById
\* answer without leaving the current job
MicrotaskPending == \E i \in DOMAIN tasks : tasks[i].pc \in {"fetch", "loadfast"}

\* ------------------------------------------------ CartModule._scheduleSave
\* clearTimeout(this._saveTimeout); this._saveTimeout = setTimeout(...).
\* The result: the timer table and the new handle (0 when the table is full).
FreshTimer(tm) ==
  IF TimerIds \ tm = {} THEN 0
  ELSE CHOOSE h \in TimerIds \ tm : \A g \in TimerIds \ tm : h <= g

ScheduleSaveNoClear(tm, st) ==
  [timers |-> tm \cup {FreshTimer(tm)}, handle |-> FreshTimer(tm)]

ScheduleSave(tm, st) ==
  [timers |-> (tm \ {st}) \cup {FreshTimer(tm \ {st})}, handle |-> FreshTimer(tm \ {st})]

\* --------------------------------------------- CartModule.updateCartUI flow
\* The execution stops at an await: everything it has written so far stands.
Suspend(c, pend, ow, tk, t) ==
  /\ Len(tk) < MaxTasks
  /\ cart' = c
  /\ pendingChangedIds' = pend
  /\ owed' = ow
  /\ tasks' = Append(tk, t)
  /\ completed' = NoCompletion
  /\ UNCHANGED <<saveTimeout, timers>>

\* The tail of updateCartUI: _scheduleSave(), _emitUpdateEvent(), return.
\* total is the totalCount computed in step 2.
FinishUpdate(c, pend, ow, total, tk) ==
  LET s == ScheduleSave(timers, saveTimeout) IN
  /\ s.handle # 0
  /\ cart' = c
  /\ tasks' = tk
  /\ timers' = s.timers
  /\ saveTimeout' = s.handle
  /\ pendingChangedIds' = {}
  /\ owed' = ow \ pend
  /\ completed' = IF "completed" \in observed
                  THEN [fired |-> TRUE,
                        evTotalCount |-> TotalCount(c), evCartQty |-> TotalCount(c),
                        retTotalCount |-> total, retCartQty |-> TotalCount(c)]
                  ELSE NoCompletion

\* Step 5 awaits the renderer except on the fast path of an id that has left a
\* cart which still holds other items.
GridAwaits(c, target) ==
  IF target # NoId /\ target \notin Names(c) THEN c = <<>> ELSE TRUE

\* the fast path of step 5 drops the target id from _pendingChangedIds
PendingAfterFastPath(pend, target) == pend \ {target}

\* Step 5: the cart grid, when one is attached.
GridStep(c, pend, ow, target, total, tk) ==
  IF cartGrid
  THEN LET pend2 == IF target # NoId THEN PendingAfterFastPath(pend, target) ELSE pend IN
       IF GridAwaits(c, target)
       THEN Suspend(c, pend2, ow, tk, Task("grid", target, {}, total, <<>>))
       ELSE FinishUpdate(c, pend2, ow, total, tk)
  ELSE FinishUpdate(c, pend, ow, total, tk)

\* Steps 2 to 4: totals, header, mini cart.
AfterFetch(c, pend, ow, target, tk) ==
  IF miniCartAsync
  THEN Suspend(c, pend, ow, tk, Task("mini", target, {}, TotalCount(c), <<>>))
  ELSE GridStep(c, pend, ow, target, TotalCount(c), tk)

\* updateCartUI(targetId) called on cart c0 with pending ids pend0, cat being
\* the product map: the part up to its first await.
UpdateCartUI(cat, c0, pend0, ow, target, tk) ==
  LET c1 == DedupeCart(c0) IN
  IF target # NoId
  THEN LET i == FindCartIndexById(c1, target)
           hit == i > 0 /\ cat[target] # Absent
           c2 == IF hit THEN [c1 EXCEPT ![i] = MergeProductToItem(c1[i], cat[target])] ELSE c1
           pend1 == IF hit /\ MergeClamps(c1[i], cat[target]) THEN pend0 \cup {target} ELSE pend0
       IN AfterFetch(c2, pend1, ow, target, tk)
  ELSE Suspend(c1, pend0, ow, tk,
               Task("fetch", NoId, {k \in Names(c1) : cat[k] # Absent}, 0, <<>>))

\* The bulk refresh resumes after `await Promise.allSettled(tasks)`: every
\* product found at the call is merged into the item that now has its id.
\* Microtasks run in the order they were queued.
ResumeFetch(i) ==
  /\ i \in DOMAIN tasks
  /\ tasks[i].pc = "fetch"
  /\ \A j \in 1..(i - 1) : tasks[j].pc # "fetch"
  /\ LET t == tasks[i]
         hit(it) == it.name \in t.ids /\ products[it.name] # Absent
         c2 == [n \in 1..Len(cart) |->
                  IF hit(cart[n]) THEN MergeProductToItem(cart[n], products[cart[n].name]) ELSE cart[n]]
         noted == {cart[n].name : n \in {m \in DOMAIN cart :
                                       hit(cart[m]) /\ MergeClamps(cart[m], products[cart[m].name])}}
     IN AfterFetch(c2, pendingChangedIds \cup noted, owed, NoId, RemoveAt(tasks, i))
  /\ lastOp' = Internal("resume")
  /\ UNCHANGED <<products, storageCart, cartGrid, miniCartAsync, observed, unsaved, watch, favVars, productList, extVars>>

\* miniCart.render(this.cart) has settled
ResumeMini(i) ==
  /\ i \in DOMAIN tasks
  /\ tasks[i].pc = "mini"
  /\ ~MicrotaskPending
  /\ GridStep(cart, pendingChangedIds, owed, tasks[i].target, tasks[i].total, RemoveAt(tasks, i))
  /\ lastOp' = Internal("resume")
  /\ UNCHANGED <<products, storageCart, cartGrid, miniCartAsync, observed, unsaved, watch, favVars, productList, extVars>>

\* the renderer and requestAnimationFrame have settled
ResumeGrid(i) ==
  /\ i \in DOMAIN tasks
  /\ tasks[i].pc = "grid"
  /\ ~MicrotaskPending
  /\ FinishUpdate(cart, pendingChangedIds, owed, tasks[i].total, RemoveAt(tasks, i))
  /\ lastOp' = Internal("resume")
  /\ UNCHANGED <<products, storageCart, cartGrid, miniCartAsync, observed, unsaved, watch, favVars, productList, extVars>>

\* ------------------------------------------------------ observer bookkeeping
\* The latest mutation applied while an async execution was suspended: the id
\* and whether the mutation left it in the cart; forgotten once nothing is
\* suspended any more.
WatchAfter(id, c) ==
  IF tasks # <<>> /\ "watch" \in observed
  THEN [id |-> id, present |-> id \in Names(c)]
  ELSE NoWatch

WatchKeep == watch' = IF tasks = <<>> THEN NoWatch ELSE watch

\* A call that returns before it touches the cart.
Refused(op, warned) ==
  /\ lastOp' = Op(op, FALSE, warned)
  /\ completed' = NoCompletion
  /\ WatchKeep
  /\ UNCHANGED <<products, cart, pendingChangedIds, saveTimeout, timers, storageCart,
                 tasks, cartGrid, miniCartAsync, observed, unsaved, owed, favVars, productList, extVars>>

\* A call that has changed the cart to c, noted the ids and calls
\* updateCartUI(target).
Mutated(op, c, noted, target, warned, watched) ==
  /\ UpdateCartUI(products, c, pendingChangedIds \cup noted,
                  IF "owed" \in observed THEN owed \cup noted ELSE owed, target, tasks)
  /\ lastOp' = Op(op, TRUE, warned)
  /\ unsaved' = IF "unsaved" \in observed THEN Min(unsaved + 1, MaxBurst) ELSE 0
  /\ watch' = watched
  /\ UNCHANGED <<products, storageCart, cartGrid, miniCartAsync, observed, favVars, productList, extVars>>

\* ------------------------------------------------------ CartModule._addRawEntry
\* _addRawEntry(id, qty, prod) up to its call of updateCartUI: whether it goes
\* on (ok), the cart it leaves and whether it showed a warning.  prod is the
\* stock of the product found, Absent when findById returned null.
AddRawEntryUnlimited(c, id, q, prod) ==
  LET qty == Max(1, IF q = 0 THEN 1 ELSE q)
      idx == FindCartIndexById(c, id)
  IN [ok |-> TRUE,
      cart |-> IF idx > 0 THEN [c EXCEPT ![idx].qty = @ + qty]
               ELSE Append(c, [name |-> id, qty |-> qty, stock |-> Max(0, prod)]),
      warned |-> FALSE]

AddRawEntry(c, id, q, prod) ==
  LET qty0 == Max(1, IF q = 0 THEN 1 ELSE q)
      qty == IF prod # Absent /\ qty0 > prod THEN prod ELSE qty0
      warnedOnly == prod # Absent /\ prod > 0 /\ qty0 > prod
      idx == FindCartIndexById(c, id)
  IN
  IF prod # Absent /\ prod <= 0
  THEN [ok |-> FALSE, cart |-> c, warned |-> TRUE]
  ELSE IF idx > 0
       THEN LET existing == c[idx]
                proposed == existing.qty + qty
                maxAllowed == IF prod # Absent
                              THEN (IF prod # 0 THEN prod ELSE existing.stock)
                              ELSE existing.stock
            IN IF maxAllowed > 0 /\ proposed > maxAllowed
               THEN [ok |-> FALSE, cart |-> c, warned |-> TRUE]
               ELSE [ok |-> TRUE, cart |-> [c EXCEPT ![idx].qty = proposed], warned |-> warnedOnly]
       ELSE [ok |-> TRUE,
             cart |-> Append(c, IF prod # Absent
                                THEN NormalizeCartItemFromProduct(id, prod, qty)
                                ELSE [name |-> id, qty |-> qty, stock |-> 0]),
             warned |-> warnedOnly]

\* quantities stay within MaxQty, or within the stock of a product that has more
QtyCap(id) == IF products[id] = Absent THEN MaxQty ELSE Max(MaxQty, products[id])

\* the effect of cart.add(id, q), reported as the call `op`
AddEffect(op, id, q, warnedBefore) ==
  LET r == AddRawEntry(cart, id, q, products[id]) IN
  IF r.ok
  THEN /\ GetCartQtyById(r.cart, id) <= QtyCap(id)
       /\ Mutated(op, r.cart, {id}, NoId, warnedBefore \/ r.warned, WatchAfter(id, r.cart))
  ELSE Refused(op, warnedBefore \/ r.warned)

\* CartModule.add(productId, qty)
Add(id, q) == AddEffect("add", id, q, FALSE)

\* Card._computeAvailableStock(id)
ComputeAvailableStock(id) ==
  Max(0, (IF products[id] = Absent THEN 0 ELSE products[id]) - GetCartQtyById(cart, id))

\* ShopMatic.addToCart(id, qty)
AddToCart(id, q) ==
  LET desired == Max(1, IF q = 0 THEN 1 ELSE q)
      available == ComputeAvailableStock(id)
      toAdd == Min(desired, available)
  IN IF available <= 0
     THEN Refused("addToCart", TRUE)
     ELSE AddEffect("addToCart", id, toAdd, toAdd < desired)

\* CartModule.remove(productId)
Remove(id) ==
  LET idx == FindCartIndexById(cart, id) IN
  IF idx > 0
  THEN Mutated("remove", RemoveAt(cart, idx), {id}, NoId, FALSE,
               WatchAfter(id, RemoveAt(cart, idx)))
  ELSE Refused("remove", FALSE)

\* the item changeQty leaves, and whether it warned: prod as in AddRawEntry
ChangedQty(item, q, prod) ==
  LET qty0 == IF q = 0 THEN 1 ELSE q
      qty1 == IF qty0 < 1 THEN 1 ELSE qty0
      stock == IF prod = Absent THEN 0
               ELSE IF prod # 0 THEN prod ELSE item.stock
      clamp == prod # Absent /\ stock > 0 /\ qty1 > stock
  IN [item |-> [item EXCEPT !.qty = IF clamp THEN stock ELSE qty1], warned |-> clamp]

\* CartModule.changeQty(productId, newQty)
ChangeQty(id, q) ==
  LET idx == FindCartIndexById(cart, id) IN
  IF idx > 0
  THEN LET r == ChangedQty(cart[idx], q, products[id])
           c == [cart EXCEPT ![idx] = r.item]
       IN Mutated("changeQty", c, {id}, id, r.warned, WatchAfter(id, c))
  ELSE Refused("changeQty", FALSE)

\* CartModule.clear()
Clear ==
  /\ cart # <<>>
  /\ Mutated("clear", <<>>, Names(cart), NoId, FALSE, NoWatch)

\* CartModule.setDomRefs({cartGrid}): the cart page attaches its grid
SetDomRefs ==
  /\ ~cartGrid
  /\ cartGrid' = TRUE
  /\ lastOp' = Internal("setDomRefs")
  /\ completed' = NoCompletion
  /\ WatchKeep
  /\ UNCHANGED <<products, cart, pendingChangedIds, saveTimeout, timers, storageCart,
                 tasks, miniCartAsync, observed, unsaved, owed, favVars, productList, extVars>>

\* the records a host answer lists, cat being id -> stock or Absent
IdSeq == <<"a", "b">>

ListOf(cat) ==
  SelectSeq([n \in 1..Len(IdSeq) |-> [name |-> IdSeq[n], stock |-> cat[IdSeq[n]]]],
            LAMBDA r : r.stock \notin {Absent, Failed})

\* ProductService.loadProductsSimple: the answer of the host replaces the
\* product list and the id map is rebuilt from it.
LoadProductsSimple(list) ==
  /\ ~MicrotaskPending
  /\ list # products
  /\ products' = list
  /\ productList' = ListOf(list)
  /\ lastOp' = Internal("loadProducts")
  /\ completed' = NoCompletion
  /\ WatchKeep
  /\ UNCHANGED <<cart, pendingChangedIds, saveTimeout, timers, storageCart,
                 tasks, cartGrid, miniCartAsync, observed, unsaved, owed, favVars, extVars>>

\* ------------------------------------------------------------ persistence
\* The debounce timer armed by _scheduleSave fires:
\* storage.saveCart(this.cart); this._saveTimeout = null.
SaveTimerFires(h) ==
  /\ ~MicrotaskPending
  /\ h \in timers
  /\ timers' = timers \ {h}
  /\ storageCart' = SavedForm(cart)
  /\ saveTimeout' = 0
  /\ unsaved' = 0
  /\ lastOp' = Internal("save")
  /\ completed' = NoCompletion
  /\ WatchKeep
  /\ UNCHANGED <<products, cart, pendingChangedIds, tasks, cartGrid, miniCartAsync, observed, owed, favVars, productList, extVars>>

\* What destroy() does about a pending save after clearTimeout: it calls
\* storage.saveCart(this.cart) at once.  The result: whether saveCart was
\* called and what the storage key holds.
DestroyDropsSave(c, store) == [saved |-> FALSE, store |-> store]

DestroyFlushesSave(c, store) == [saved |-> TRUE, store |-> SavedForm(c)]

\* CartModule.destroy() with a save pending (without one it changes nothing)
Destroy ==
  /\ saveTimeout # 0
  /\ timers' = timers \ {saveTimeout}
  /\ saveTimeout' = 0
  /\ storageCart' = DestroyFlushesSave(cart, storageCart).store
  /\ unsaved' = IF DestroyFlushesSave(cart, storageCart).saved THEN 0 ELSE unsaved
  /\ lastOp' = Internal("destroy")
  /\ completed' = NoCompletion
  /\ WatchKeep
  /\ UNCHANGED <<products, cart, pendingChangedIds, tasks, cartGrid, miniCartAsync, observed, owed, favVars, productList, extVars>>

\* Another tab of the same origin writes the cart key.
StoredQtys == {-1, 0, MaxQty}

StoredEntries == [name : Ids, qty : StoredQtys, stock : {0}]

OtherTabWrite(c) ==
  /\ ~MicrotaskPending
  /\ c # storageCart
  /\ storageCart' = c
  /\ lastOp' = Internal("otherTab")
  /\ completed' = NoCompletion
  /\ WatchKeep
  /\ UNCHANGED <<products, cart, pendingChangedIds, saveTimeout, timers,
                 tasks, cartGrid, miniCartAsync, observed, unsaved, owed, favVars, productList, extVars>>

\* StorageService._safeGetItem: null when localStorage is not available, when
\* getItem or JSON.parse throws (caught here), when nothing is stored and when
\* what is stored is not an array
StorageFaults == {"unavailable", "throws", "unparsable", "nonArray"}

SafeGetItem(fault, content) ==
  CASE fault = "unavailable" -> [isArray |-> FALSE, value |-> <<>>]
    [] fault \in {"throws", "unparsable"} -> [isArray |-> FALSE, value |-> <<>>]
    [] fault = "nonArray" -> [isArray |-> FALSE, value |-> <<>>]
    [] OTHER -> [isArray |-> TRUE, value |-> content]

\* loadCart() / loadFavs() as the two loaders use them: rawCart || []
OrEmpty(r) == IF r.isArray THEN r.value ELSE <<>>

LoadCart == OrEmpty(SafeGetItem(storageFault, storageCart))

LoadFavs == OrEmpty(SafeGetItem(storageFault, storageFavs))

\* a load that starts now is the latest in flight, with or without a fault
Faulted(fn) ==
  IF "fault" \in observed /\ storageFault # "none" THEN faulted \cup {fn} ELSE faulted \ {fn}

\* StorageService.loadCartWithAvailability up to its first wait: the stored
\* array is read now; an entry whose product is cached gets its availability
\* now (out.stock = out.stock || prodStock), the others wait for the host.
LoadWithAvailability(stored) ==
  [n \in 1..Len(stored) |->
     LET e == stored[n]
         prod == products[e.name]
     IN [name |-> e.name, qty |-> e.qty,
         stock |-> IF prod = Absent THEN e.stock
                   ELSE IF e.stock # 0 THEN e.stock ELSE prod,
         miss |-> prod = Absent]]

Misses(raw) == {raw[n].name : n \in {m \in DOMAIN raw : raw[m].miss}}

LoadTask(stored) ==
  LET raw == LoadWithAvailability(stored) IN
  Task(IF Misses(raw) = {} THEN "loadfast" ELSE "load", NoId, {}, 0, raw)

\* CartModule.loadFromStorage() up to `await storage.loadCartWithAvailability()`
LoadsInFlight == Cardinality({j \in DOMAIN tasks : tasks[j].pc \in {"load", "loadfast"}})

LoadFromStorage ==
  /\ Len(tasks) < MaxTasks
  /\ LoadsInFlight < MaxLoads
  /\ tasks' = Append(tasks, LoadTask(LoadCart))
  /\ faulted' = Faulted("cart")
  /\ lastOp' = Internal("load")
  /\ completed' = NoCompletion
  /\ WatchKeep
  /\ UNCHANGED <<products, cart, pendingChangedIds, saveTimeout, timers, storageCart,
                 cartGrid, miniCartAsync, observed, unsaved, owed, favVars, productList,
                 psVars, presVars, catVars, pageVars, storageFault, rejected>>

\* ShopMatic._onStorageEvent for the cart key:
\* this.cart.loadFromStorage(); this.cart.updateCartUI();
OnStorageEvent ==
  /\ ~MicrotaskPending
  /\ Len(tasks) + 2 <= MaxTasks
  /\ LoadsInFlight < MaxLoads
  /\ UpdateCartUI(products, cart, pendingChangedIds, owed, NoId, Append(tasks, LoadTask(LoadCart)))
  /\ faulted' = Faulted("cart")
  /\ lastOp' = Internal("storageEvent")
  /\ WatchKeep
  /\ UNCHANGED <<products, storageCart, cartGrid, miniCartAsync, observed, unsaved, favVars,
                 productList, psVars, presVars, catVars, pageVars, storageFault, rejected>>

\* the entry loadFromStorage maps to a cart item, cat being the product map
LoadedItemNoFloor(e, cat) ==
  LET prod == cat[e.name]
  IN IF prod # Absent
     THEN [name |-> e.name, qty |-> IF prod > 0 THEN Min(e.qty, prod) ELSE e.qty, stock |-> prod]
     ELSE [name |-> e.name, qty |-> e.qty, stock |-> IF e.miss THEN 0 ELSE e.stock]

LoadedItem(e, cat) ==
  LET qty == IF e.qty < 1 THEN 1 ELSE e.qty
      prod == cat[e.name]
  IN IF prod # Absent
     THEN NormalizeCartItemFromProduct(e.name, prod, IF prod > 0 THEN Min(qty, prod) ELSE qty)
     ELSE [name |-> e.name, qty |-> qty, stock |-> IF e.miss THEN 0 ELSE e.stock]

\* loadFromStorage resumes: fetchById has answered for the products that were
\* not cached (ans: id -> stock or Absent) and has put the ones it found into
\* the product map; this.cart is replaced by the mapped entries.
ResumeLoad(i, ans) ==
  /\ i \in DOMAIN tasks
  /\ tasks[i].pc \in {"load", "loadfast"}
  /\ tasks[i].pc = "load" => ~MicrotaskPending   \* a network answer is a host event
  /\ \A k \in Ids \ Misses(tasks[i].raw) : ans[k] = Absent
  /\ LET raw == tasks[i].raw
         cat == [k \in Ids |-> IF ans[k] \notin {Absent, Failed} THEN ans[k] ELSE products[k]]
         c == DedupeCart([n \in 1..Len(raw) |-> LoadedItem(raw[n], cat)])
     IN /\ products' = cat
        /\ productList' = productList \o ListOf(ans)
        /\ UpdateCartUI(cat, c, pendingChangedIds \cup Names(c), owed, NoId, RemoveAt(tasks, i))
  /\ psDone' = IF "fault" \notin observed THEN psDone
               ELSE IF Misses(tasks[i].raw) = {} THEN NoDone
               ELSE [op |-> "fetch",
                     cause |-> IF \E k \in Ids : ans[k] = Failed THEN "reject" ELSE "answer"]
  /\ faulted' = IF \A j \in DOMAIN tasks : tasks[j].pc \in {"load", "loadfast"} => j <= i
                THEN faulted \ {"cart"} ELSE faulted
  /\ lastOp' = Internal("resumeLoad")
  /\ UNCHANGED <<storageCart, cartGrid, miniCartAsync, observed, unsaved, watch, favVars,
                 psCalls, timeoutMs, presVars, catVars, pageVars, storageFault, rejected>>

\* ------------------------------------------------------------- favorites
\* the options of the constructor: max (0 = no limit), overflow, and whether
\* saveDebounceMs is above 0
FavOptions == [max : {0, MaxFavs}, overflow : {"reject", "drop_oldest"}, debounce : BOOLEAN]

Has(list, id) == \E i \in DOMAIN list : list[i] = id

Without(list, id) == SelectSeq(list, LAMBDA x : x # id)

Elems(list) == {list[i] : i \in DOMAIN list}

\* the last n elements: list.slice(-n)
LastN(list, n) == IF Len(list) <= n THEN list ELSE SubSeq(list, Len(list) - n + 1, Len(list))

\* FavoritesModule._scheduleSave: with no debounce _doSave runs at once, else
\* the timer is re-armed.  The result: the timer, the stored list, whether that
\* was a save.
FavScheduleSaveForgets(opts, list, store) ==
  [timer |-> FALSE, store |-> store, saved |-> FALSE]

FavScheduleSave(opts, list, store) ==
  IF ~opts.debounce
  THEN [timer |-> favSaveTimer, store |-> list, saved |-> TRUE]
  ELSE [timer |-> TRUE, store |-> store, saved |-> FALSE]

\* What a call of the favorites leaves: _list, _set, its return value, whether
\* it called _scheduleSave, the types of the events it emitted.
FavResult(list, set, ret, save, emitted) ==
  [list |-> list, set |-> set, ret |-> ret, save |-> save, emitted |-> emitted]

\* a call that returns without touching _list and _set
FavSame(st, ret, emitted) == FavResult(st.list, st.set, ret, FALSE, emitted)

\* this._max > 0 && this._list.length >= this._max
FavAtLimit(st) == favOpts.max > 0 /\ Len(st.list) >= favOpts.max

\* this._list.push(sid); this._set.add(sid); at the limit the oldest goes
\* first: const removed = this._list.shift(); this._set.delete(removed)
FavAddedInFront(st, id) ==
  [list |-> <<id>> \o st.list, set |-> st.set \cup {id}]

FavAddedDropsNewest(st, id) ==
  IF FavAtLimit(st)
  THEN [list |-> Append(SubSeq(st.list, 1, Len(st.list) - 1), id),
        set |-> (st.set \ {st.list[Len(st.list)]}) \cup {id}]
  ELSE [list |-> Append(st.list, id), set |-> st.set \cup {id}]

FavAdded(st, id) ==
  IF FavAtLimit(st)
  THEN [list |-> Append(Tail(st.list), id), set |-> (st.set \ {Head(st.list)}) \cup {id}]
  ELSE [list |-> Append(st.list, id), set |-> st.set \cup {id}]

\* whether add(id) goes through
FavAddAllowed(st, id) ==
  /\ id \notin st.set
  /\ FavAtLimit(st) => favOpts.overflow = "drop_oldest"

\* add(id) that saves and emits 'add' even for an id of the list
AddResultAnnouncesDuplicate(st, id, destroyed) ==
  IF destroyed THEN FavSame(st, FALSE, {})
  ELSE IF id \in st.set THEN FavResult(st.list, st.set, FALSE, TRUE, {"add"})
  ELSE IF FavAddAllowed(st, id)
       THEN LET n == FavAdded(st, id) IN FavResult(n.list, n.set, TRUE, TRUE, {"add"})
       ELSE FavSame(st, FALSE, {"limit"})

\* add(id)
AddResult(st, id, destroyed) ==
  IF destroyed \/ id \in st.set THEN FavSame(st, FALSE, {})
  ELSE IF ~FavAddAllowed(st, id) THEN FavSame(st, FALSE, {"limit"})
  ELSE LET n == FavAdded(st, id) IN FavResult(n.list, n.set, TRUE, TRUE, {"add"})

\* remove(id)
RemoveResult(st, id, destroyed) ==
  IF destroyed \/ id \notin st.set THEN FavSame(st, FALSE, {})
  ELSE FavResult(Without(st.list, id), st.set \ {id}, TRUE, TRUE, {"remove"})

ToggleResultNeverRemoves(st, id, destroyed, impl) ==
  IF destroyed \/ id \in st.set THEN FavSame(st, FALSE, {})
  ELSE AddResult(st, id, destroyed)

\* toggle(id): FavoritesModule.js returns whether the id is a favorite
\* afterwards, the module of CheckoutPage.js returns what remove or add returned
ToggleResult(st, id, destroyed, impl) ==
  IF destroyed THEN FavSame(st, FALSE, {})
  ELSE IF id \in st.set
       THEN LET r == RemoveResult(st, id, destroyed)
            IN [r EXCEPT !.ret = IF impl = "checkout" THEN r.ret ELSE FALSE]
       ELSE AddResult(st, id, destroyed)

\* clear()
ClearResult(st, destroyed) ==
  IF destroyed \/ st.list = <<>> THEN FavSame(st, FALSE, {})
  ELSE FavResult(<<>>, {}, FALSE, TRUE, {"clear"})

\* the ids of arr, each kept at its first occurrence
RECURSIVE Dedupe(_)
Dedupe(arr) ==
  IF arr = <<>> THEN <<>>
  ELSE <<Head(arr)>> \o Dedupe(Without(Tail(arr), Head(arr)))

\* importFromArray without replace: the missing ids are appended one by one
RECURSIVE FavMerge(_, _)
FavMerge(st, ids) ==
  IF ids = <<>> THEN st
  ELSE IF Head(ids) \in st.set THEN FavMerge(st, Tail(ids))
  ELSE IF FavAtLimit(st) /\ favOpts.overflow # "drop_oldest"
       THEN st
       ELSE FavMerge(FavAdded(st, Head(ids)), Tail(ids))

\* importFromArray(arr, {replace, persist}): it does not look at _destroyed
ImportResult(st, arr, replace, persist) ==
  LET normalized == Dedupe(arr)
      final == IF favOpts.max > 0 THEN LastN(normalized, favOpts.max) ELSE normalized
      n == IF replace THEN [list |-> final, set |-> Elems(final)]
           ELSE FavMerge(st, normalized)
  IN FavResult(n.list, n.set, TRUE, persist, {"import"})

\* _applyMaxTruncate
ApplyMaxTruncateKeepsAll(st) ==
  [list |-> st.list, set |-> st.set, truncated |-> FALSE]

ApplyMaxTruncate(st) ==
  IF favOpts.max <= 0 \/ Len(st.list) <= favOpts.max
  THEN [list |-> st.list, set |-> st.set, truncated |-> FALSE]
  ELSE LET l == LastN(st.list, favOpts.max)
       IN [list |-> l, set |-> Elems(l), truncated |-> TRUE]

FavSt == [list |-> favList, set |-> favSet]

\* the history of the saves, for the properties that read it
FavUnsaved(u) == IF "favSave" \in observed THEN u ELSE FALSE

FavStep(step) == IF "favSave" \in observed THEN step ELSE "init"

\* the call made in this step, for the properties that read it
NoFavCall == [op |-> "none", id |-> NoId, ret |-> FALSE, emitted |-> {}, repeat |-> FALSE]

FavCall(op, id, r) ==
  IF "favCall" \in observed
  THEN [op |-> op, id |-> id, ret |-> r.ret, emitted |-> r.emitted,
        repeat |-> favCall.op = op /\ favCall.id = id]
  ELSE NoFavCall

\* the call has run: _list and _set are as it left them, and _scheduleSave
\* has saved or armed the timer if the call reached it
FavMutated(op, id, r) ==
  LET sv == FavScheduleSave(favOpts, r.list, storageFavs) IN
  /\ favList' = r.list
  /\ favSet' = r.set
  /\ favSaveTimer' = sv.timer
  /\ storageFavs' = sv.store
  /\ favUnsaved' = FavUnsaved(~sv.saved)
  /\ favStep' = FavStep("mutation")
  /\ favCall' = FavCall(op, id, r)
  /\ UNCHANGED <<favOpts, favImpl, favDestroyed, favLoads, wishVars, cartVars, productList,
                 psVars, catVars, pageVars, faultVars>>

\* a call that did not reach _scheduleSave
FavRefused(op, id, r) ==
  /\ favList' = r.list
  /\ favSet' = r.set
  /\ favStep' = FavStep(IF op = "import" THEN "import" ELSE "refused")
  /\ favCall' = FavCall(op, id, r)
  /\ UNCHANGED <<favOpts, favImpl, favSaveTimer, favDestroyed, storageFavs, favUnsaved,
                 favLoads, wishVars, cartVars, productList, psVars, catVars, pageVars, faultVars>>

FavEffect(op, id, r) == IF r.save THEN FavMutated(op, id, r) ELSE FavRefused(op, id, r)

FavApply(op, id, r) == FavEffect(op, id, r) /\ UNCHANGED presVars

\* FavoritesModule.add(id)
FavAdd(id) == FavApply("add", id, AddResult(FavSt, id, favDestroyed))

\* FavoritesModule.remove(id)
FavRemove(id) == FavApply("remove", id, RemoveResult(FavSt, id, favDestroyed))

\* FavoritesModule.toggle(id)
FavToggle(id) == FavApply("toggle", id, ToggleResult(FavSt, id, favDestroyed, favImpl))

\* FavoritesModule.clear()
FavClear == FavApply("clear", NoId, ClearResult(FavSt, favDestroyed))

\* the arrays passed to importFromArray and found in storage: up to MaxImport
\* ids, an id may come twice in the shorter ones
ImportArrays ==
  {arr \in UNION {[1..n -> FavIds] : n \in 0..MaxImport} :
     Len(arr) = MaxImport => \A i, j \in DOMAIN arr : arr[i] = arr[j] => i = j}

\* FavoritesModule.importFromArray(arr, {replace, persist})
FavImportFromArray(arr, replace, persist) ==
  FavApply("import", NoId, ImportResult(FavSt, arr, replace, persist))

\* the debounce timer of the favorites fires: _saveTimer = null; _doSave()
FavSaveTimerFires ==
  /\ favSaveTimer
  /\ favSaveTimer' = FALSE
  /\ storageFavs' = favList
  /\ favUnsaved' = FALSE
  /\ favStep' = FavStep("save")
  /\ favCall' = NoFavCall
  /\ UNCHANGED <<favOpts, favImpl, favList, favSet, favDestroyed, favLoads, wishVars, cartVars, productList, extVars>>

\* FavoritesModule.destroy(): the pending timer is cleared, nothing is saved
FavDestroy ==
  /\ ~favDestroyed
  /\ favDestroyed' = TRUE
  /\ favSaveTimer' = FALSE
  /\ favStep' = FavStep("destroy")
  /\ favCall' = NoFavCall
  /\ UNCHANGED <<favOpts, favImpl, favList, favSet, storageFavs, favUnsaved, favLoads,
                 wishVars, cartVars, productList, extVars>>

\* StorageService.loadFavsWithAvailability: every stored id comes back as an
\* object { name, available, missing, stock }, in the stored order
LoadFavsWithAvailability(stored) ==
  [n \in 1..Len(stored) |->
     [name |-> stored[n],
      missing |-> stored[n] \notin Ids \/ products[stored[n]] = Absent]]

\* what loadFromStorage makes of the answer: the names, each at its first
\* occurrence, cut to the last max of them
FavLoadedWithoutMissing(raw) ==
  LET kept == SelectSeq(raw, LAMBDA e : ~e.missing)
      normalized == Dedupe([n \in 1..Len(kept) |-> kept[n].name])
  IN ApplyMaxTruncate([list |-> normalized, set |-> Elems(normalized)])

FavLoaded(raw) ==
  LET normalized == Dedupe([n \in 1..Len(raw) |-> raw[n].name])
  IN ApplyMaxTruncate([list |-> normalized, set |-> Elems(normalized)])

\* FavoritesModule.loadFromStorage() up to its await
FavLoadFromStorage ==
  /\ Len(favLoads) < MaxFavLoads
  /\ favLoads' = Append(favLoads, LoadFavsWithAvailability(LoadFavs))
  /\ faulted' = Faulted("favs")
  /\ favStep' = FavStep("loadStart")
  /\ favCall' = NoFavCall
  /\ UNCHANGED <<favOpts, favImpl, favList, favSet, favSaveTimer, favDestroyed, storageFavs,
                 favUnsaved, wishVars, cartVars, productList, psVars, presVars, catVars, pageVars, storageFault, rejected>>

\* loadFromStorage resumes: _list and _set are replaced, a truncated list is
\* scheduled for saving, 'load' is emitted
FavResumeLoad(i) ==
  /\ i \in DOMAIN favLoads
  /\ LET t == FavLoaded(favLoads[i])
         sv == IF t.truncated THEN FavScheduleSave(favOpts, t.list, storageFavs)
               ELSE [timer |-> favSaveTimer, store |-> storageFavs, saved |-> ~favUnsaved]
     IN /\ favList' = t.list
        /\ favSet' = t.set
        /\ favSaveTimer' = sv.timer
        /\ storageFavs' = sv.store
        /\ favUnsaved' = FavUnsaved(~sv.saved)
  /\ favLoads' = RemoveAt(favLoads, i)
  /\ faulted' = IF i = Len(favLoads) THEN faulted \ {"favs"} ELSE faulted
  /\ favStep' = FavStep("load")
  /\ favCall' = NoFavCall
  /\ UNCHANGED <<favOpts, favImpl, favDestroyed, wishVars, cartVars, productList,
                 psVars, presVars, catVars, pageVars, storageFault, rejected>>

\* another tab writes the favorites key
FavOtherTabWrite(list) ==
  /\ list # storageFavs
  /\ storageFavs' = list
  /\ favStep' = FavStep("otherTab")
  /\ favCall' = NoFavCall
  /\ UNCHANGED <<favOpts, favImpl, favList, favSet, favSaveTimer, favDestroyed, favUnsaved,
                 favLoads, wishVars, cartVars, productList, extVars>>

\* ------------------------------------------------------- storage events
\* Another tab calls localStorage.clear(): both keys are gone.
OtherTabClear ==
  /\ ~MicrotaskPending
  /\ storageCart # <<>> \/ storageFavs # <<>>
  /\ storageCart' = <<>>
  /\ storageFavs' = <<>>
  /\ lastOp' = Internal("otherTabClear")
  /\ completed' = NoCompletion
  /\ WatchKeep
  /\ favStep' = FavStep("otherTab")
  /\ favCall' = NoFavCall
  /\ UNCHANGED <<products, cart, pendingChangedIds, saveTimeout, timers, tasks, cartGrid,
                 miniCartAsync, observed, unsaved, owed, favOpts, favImpl, favList, favSet,
                 favSaveTimer, favDestroyed, favUnsaved, favLoads, wishVars, productList, extVars>>

\* Whether a storage event of this key makes the favorites reload.  The
\* module of FavoritesModule.js is reloaded by ShopMatic._onStorageEvent (and
\* by its own listener when it has one) for its key and for a null key; the
\* FavoritesModule of CheckoutPage.js listens itself, for its key only.
FavReloads(impl, key) ==
  IF impl = "module" THEN key \in {"null", "favs"} ELSE key = "favs"

\* WishlistModule._onStorageEvent: the rendered ids that the stored list does
\* not hold
WishToRemoveAll(domIds, newIds) == IF domIds \subseteq newIds THEN {} ELSE domIds

WishToRemove(domIds, newIds) == domIds \ newIds

\* The browser delivers a storage event (key "null" after a clear, "favs"
\* for the favorites key) to every listener of the page: ShopMatic starts
\* cart.loadFromStorage() for a null key, the favorites start their reload,
\* the wishlist starts the removal of the cards that disappeared or arms its
\* refresh timer.
StorageEvent(key) ==
  /\ ~MicrotaskPending
  /\ key = "null" => Len(tasks) < MaxTasks /\ LoadsInFlight < MaxLoads
  /\ FavReloads(favImpl, key) => Len(favLoads) < MaxFavLoads
  /\ tasks' = IF key = "null" THEN Append(tasks, LoadTask(LoadCart)) ELSE tasks
  /\ favLoads' = IF FavReloads(favImpl, key)
                 THEN Append(favLoads, LoadFavsWithAvailability(LoadFavs))
                 ELSE favLoads
  /\ LET started == (IF key = "null" THEN {"cart"} ELSE {})
                       \cup (IF FavReloads(favImpl, key) THEN {"favs"} ELSE {})
     IN faulted' = IF "fault" \in observed /\ storageFault # "none"
                   THEN faulted \cup started ELSE faulted \ started
  /\ LET toRemove == WishToRemove(wishDom, Elems(storageFavs))
     IN /\ wishRemoving' = wishRemoving \cup toRemove
        /\ wishRefreshTimer' = (wishRefreshTimer \/ toRemove = {})
        /\ wishStep' = IF toRemove # {} THEN "remove" ELSE "refresh"
  /\ lastOp' = Internal(IF key = "null" THEN "storageNull" ELSE "storageFavs")
  /\ completed' = NoCompletion
  /\ WatchKeep
  /\ favStep' = FavStep("storageEvent")
  /\ favCall' = NoFavCall
  /\ UNCHANGED <<products, cart, pendingChangedIds, saveTimeout, timers, storageCart,
                 cartGrid, miniCartAsync, observed, unsaved, owed, favOpts, favImpl,
                 favList, favSet, favSaveTimer, favDestroyed, storageFavs, favUnsaved,
                 wishDom, productList, psVars, presVars, catVars, pageVars, storageFault, rejected>>

\* WishlistModule: the refresh timer fires and renderGrid() fills the grid with
\* the cards of shopMatic.getFavorites(), the favorites the catalog knows
WishRenderGrid ==
  /\ wishRefreshTimer
  /\ wishRefreshTimer' = FALSE
  /\ wishDom' = {id \in Elems(favList) \cap Ids : products[id] # Absent}
  /\ wishRemoving' = {}
  /\ wishStep' = "render"
  /\ UNCHANGED <<favOpts, favImpl, favList, favSet, favSaveTimer, favDestroyed, storageFavs,
                 favUnsaved, favStep, favLoads, favCall, cartVars, productList, extVars>>

\* the removal animation of a card ends: node.remove()
WishNodeRemoved(id) ==
  /\ id \in wishRemoving
  /\ wishDom' = wishDom \ {id}
  /\ wishRemoving' = wishRemoving \ {id}
  /\ wishStep' = "removed"
  /\ UNCHANGED <<wishRefreshTimer, favOpts, favImpl, favList, favSet, favSaveTimer,
                 favDestroyed, storageFavs, favUnsaved, favStep, favLoads, favCall, cartVars, productList, extVars>>

\* The page is opened again: everything in memory is as the constructors leave
\* it, the armed timers are gone with the old page, storage is as it was left.
Reopen ==
  /\ ~MicrotaskPending
  /\ cart # <<>> \/ tasks # <<>>
  /\ products' = [k \in Ids |-> Absent]
  /\ productList' = <<>>
  /\ cart' = <<>>
  /\ pendingChangedIds' = {}
  /\ saveTimeout' = 0
  /\ timers' = {}
  /\ tasks' = <<>>
  /\ cartGrid' = FALSE
  /\ unsaved' = 0
  /\ owed' = {}
  /\ watch' = NoWatch
  /\ lastOp' = Internal("reopen")
  /\ completed' = NoCompletion
  /\ faulted' = faulted \ {"cart"}
  /\ UNCHANGED <<storageCart, miniCartAsync, observed, favVars, psVars, presVars, catVars, pageVars,
                 storageFault, rejected>>

\* ---------------------------------------------------------- CartPresenter
\* updateUI's coalescing of the queued target: a global request (null) wins,
\* a queued null is kept, an empty queued id is replaced
QueuedTarget(queuedId, target) ==
  IF target = NoId THEN NoId
  ELSE IF queuedId = NoId THEN queuedId
  ELSE IF queuedId = "" THEN target
  ELSE queuedId

\* CartPresenter.updateUI(targetId) up to its await: queued while _updating,
\* else _updating is set and ctx._updateCartUI(targetId) starts
PresStart(target) ==
  IF presenter.updating
  THEN /\ presenter' = [presenter EXCEPT !.queued = TRUE,
                           !.queuedTargetId = QueuedTarget(presenter.queuedTargetId, target)]
       /\ presRuns' = presRuns
  ELSE /\ Len(presRuns) < MaxRuns
       /\ presenter' = [presenter EXCEPT !.updating = TRUE]
       /\ presRuns' = Append(presRuns, [target |-> target, stage |-> "try"])

PresUpdateUI(target) ==
  /\ PresStart(target)
  /\ UNCHANGED <<cartVars, favVars, productList, psVars, catVars, pageVars, faultVars>>

\* CartPresenter.dispatch(action): the type is looked at, the mutation goes to
\* the context (FAV_TOGGLE: ctx.favorites.toggle(id)), updateUI(targetId)
\* follows; INCLUDE_ALL asks for a global refresh, an unknown type or a
\* missing id returns null at once
DispatchTypes == {"QTY_SET", "REMOVE", "ADD", "INCLUDE_ALL", "FAV_TOGGLE", ""}

PresDispatch(type, id) ==
  /\ type # ""
  /\ type # "INCLUDE_ALL" => id # NoId
  /\ IF type = "FAV_TOGGLE"
     THEN /\ FavEffect("toggle", id, ToggleResult(FavSt, id, favDestroyed, favImpl))
          /\ PresStart(id)
     ELSE PresUpdateUI(IF type = "INCLUDE_ALL" THEN NoId ELSE id)

\* a finally block that clears _updating and does not look at _queued
PresFinallyWithoutQueue(i) ==
  /\ i \in DOMAIN presRuns
  /\ presenter' = IF presRuns[i].stage = "try" THEN [presenter EXCEPT !.updating = FALSE] ELSE presenter
  /\ presRuns' = RemoveAt(presRuns, i)

\* the promise of an execution of ctx._updateCartUI settles and updateUI goes
\* on.  After the awaited execution the finally block clears _updating and,
\* when a request was queued, starts one more execution and awaits it; after
\* that one nothing is left to do.
PresFinally(i) ==
  /\ i \in DOMAIN presRuns
  /\ IF presRuns[i].stage = "try"
     THEN IF presenter.queued
          THEN /\ presenter' = [updating |-> FALSE, queued |-> FALSE, queuedTargetId |-> NoId]
               /\ presRuns' = Append(RemoveAt(presRuns, i),
                                     [target |-> presenter.queuedTargetId, stage |-> "finally"])
          ELSE /\ presenter' = [presenter EXCEPT !.updating = FALSE]
               /\ presRuns' = RemoveAt(presRuns, i)
     ELSE /\ presenter' = presenter
          /\ presRuns' = RemoveAt(presRuns, i)

PresRunSettles(i) ==
  /\ PresFinally(i)
  /\ UNCHANGED <<cartVars, favVars, productList, psVars, catVars, pageVars, faultVars>>

\* the execution throws, or its promise is rejected: the finally block runs
\* all the same before the error leaves updateUI, and the catch after the
\* queued execution swallows the error of that one
PresRunThrows(i) ==
  /\ PresFinally(i)
  /\ rejected' = rejected \cup {"_updateCartUI"}
  /\ UNCHANGED <<cartVars, favVars, productList, psVars, catVars, pageVars, storageFault, faulted>>

\* ------------------------------------------------------- catalog filters
\* String.prototype.toLowerCase, trim and includes over the characters used
ToLowerCase(w) ==
  [i \in DOMAIN w |-> CASE w[i] = "A" -> "a" [] w[i] = "B" -> "b" [] w[i] = "C" -> "c"
                        [] OTHER -> w[i]]

RECURSIVE TrimStart(_)
TrimStart(w) == IF w # <<>> /\ Head(w) = " " THEN TrimStart(Tail(w)) ELSE w

RECURSIVE TrimEnd(_)
TrimEnd(w) == IF w # <<>> /\ w[Len(w)] = " " THEN TrimEnd(SubSeq(w, 1, Len(w) - 1)) ELSE w

Trim(w) == TrimEnd(TrimStart(w))

Includes(text, term) ==
  \E k \in 0..(Len(text) - Len(term)) : SubSeq(text, k + 1, k + Len(term)) = term

\* (this.search?.value || '').trim().toLowerCase()
SearchTerm(f) == ToLowerCase(Trim(f.search))

\* the predicate of the search filter: Catalog._filterAndSort looks at the
\* name, ShopMatic.applyFilters at the name, the short description, the
\* category and the brand
SearchKeeps(impl, p, s) ==
  IF impl = "catalog"
  THEN Includes(ToLowerCase(p.name), s)
  ELSE \/ Includes(ToLowerCase(p.name), s)
       \/ Includes(ToLowerCase(p.short), s)
       \/ Includes(ToLowerCase(p.category), s)
       \/ Includes(ToLowerCase(p.brand), s)

\* p.category === category
CategoryKeeps(p, c) == p.category = c

\* Catalog: the lower-cased brands are equal; ShopMatic: the trimmed brand of
\* the product is the value of the control
BrandKeeps(impl, p, b) ==
  IF impl = "catalog" THEN ToLowerCase(p.brand) = ToLowerCase(b) ELSE Trim(p.brand) = b

\* the three filter steps, each skipped when its control is empty
SearchFilter(impl, list, f) ==
  IF SearchTerm(f) # <<>>
  THEN SelectSeq(list, LAMBDA p : SearchKeeps(impl, p, SearchTerm(f)))
  ELSE list

CategoryFilter(impl, list, f) ==
  IF f.category # <<>> THEN SelectSeq(list, LAMBDA p : CategoryKeeps(p, f.category)) ELSE list

BrandFilterFirstOnly(impl, list, f) ==
  IF f.brand # <<>>
  THEN LET kept == SelectSeq(list, LAMBDA p : BrandKeeps(impl, p, f.brand))
       IN IF kept = <<>> \/ Head(list) # Head(kept) THEN <<>> ELSE <<Head(kept)>>
  ELSE list

BrandFilter(impl, list, f) ==
  IF f.brand # <<>> THEN SelectSeq(list, LAMBDA p : BrandKeeps(impl, p, f.brand)) ELSE list

\* Catalog._filterAndSort(list) / the filters of ShopMatic.applyFilters, the
\* sort control left at "no sorting"
FilterAndSort(f) ==
  BrandFilter(f.impl, CategoryFilter(f.impl, SearchFilter(f.impl, f.list, f), f), f)

\* the texts the page is tried with
CatNames == {<<"A", "b">>, <<"b">>}
CatShorts == {<<>>, <<"a">>}
CatCategories == {<<"a">>, <<"c">>}
CatBrands == {<<"A">>, <<"c">>}
CatTerms == {<<>>, <<"a">>, <<" ", "A">>, <<"c">>}

CatProducts == [name : CatNames, short : CatShorts, category : CatCategories, brand : CatBrands]

CatLists == UNION {[1..n -> CatProducts] : n \in 0..MaxListed}

\* applyFilters(): the list of the product service goes through the filters
\* and the result is shown
CatApply(f) ==
  /\ filters' = f
  /\ shown' = FilterAndSort(f)
  /\ UNCHANGED <<cartVars, favVars, productList, psVars, presVars, faultVars, pageVars>>

\* init(): the page starts on the product list and applies its filters
CatInit(impl, list) ==
  /\ filters.list = <<>>
  /\ list # <<>>
  /\ CatApply([filters EXCEPT !.impl = impl, !.list = list])

\* onSearchInput / onCatChange / onBrandChange: the control has a new value
OnSearchInput(term) == filters.search # term /\ CatApply([filters EXCEPT !.search = term])

OnCatChange(c) == filters.category # c /\ CatApply([filters EXCEPT !.category = c])

OnBrandChange(b) == filters.brand # b /\ CatApply([filters EXCEPT !.brand = b])

\* ------------------------------------------------------- storage failures
\* localStorage stops working (the browser refuses it, getItem throws) or the
\* two keys come to hold text that is not JSON or JSON that is not an array
StorageBreaks(mode) ==
  /\ storageFault = "none"
  /\ storageFault' = mode
  /\ UNCHANGED <<cartVars, favVars, productList, psVars, presVars, catVars, pageVars, rejected, faulted>>

\* localStorage works again, the keys hold what they held
StorageMends ==
  /\ storageFault # "none"
  /\ storageFault' = "none"
  /\ UNCHANGED <<cartVars, favVars, productList, psVars, presVars, catVars, pageVars, rejected, faulted>>

\* --------------------------------------------------------- product service
\* A suspended call: loadProductsSimple and fetchById wait for the host,
\* setProducts and upsertProduct for _normalizeProduct; cat holds the records
\* the caller passed (none for the two that ask the host).
NoCat == [k \in Ids |-> Absent]

DefaultTimeoutMs == 7000

\* _safeCall: const timeout = Number(this.opts.timeoutMs) || 7000;
\* if (!timeout || timeout <= 0) return call;  else the call races a timer
EffectiveTimeout(t) == IF t = 0 THEN DefaultTimeoutMs ELSE t

RacesTimerWhenSet(t) == t > 0

RacesTimer(t) == EffectiveTimeout(t) > 0

PsCall(op, id, cat) ==
  /\ Len(psCalls) < MaxCalls
  /\ psCalls' = Append(psCalls, [op |-> op, id |-> id, cat |-> cat,
                                 timed |-> RacesTimer(timeoutMs)])
  /\ psDone' = NoDone
  /\ UNCHANGED <<cartVars, favVars, productList, timeoutMs, presVars, catVars, pageVars, faultVars>>

\* loadProductsSimple() up to `await this._safeCall(payload)`
PsLoadProductsSimple == PsCall("load", NoId, NoCat)

\* setProducts(rawProducts) up to its await
PsSetProducts(cat) == PsCall("set", NoId, cat)

\* fetchById(id) up to its await: a product of the map is returned at once
PsFetchById(id) == products[id] = Absent /\ PsCall("fetch", id, NoCat)

\* upsertProduct(raw) up to `await this._normalizeProduct(raw)`
PsUpsertProduct(id, stock) == PsCall("upsert", id, [NoCat EXCEPT ![id] = stock])

\* _rebuildMaps: of two records with one name the later one is mapped
RebuildMaps(list) ==
  [k \in Ids |->
     IF \E i \in DOMAIN list : list[i].name = k
     THEN list[CHOOSE i \in DOMAIN list :
                 list[i].name = k /\ \A j \in DOMAIN list : list[j].name = k => j <= i].stock
     ELSE Absent]

\* The catch block of loadProductsSimple and of fetchById: the error is
\* logged, the list is kept (this.products = this.products || []) and the
\* promise resolves.
PsCatchRethrows(op, list, map) ==
  [list |-> list, map |-> map, rejects |-> TRUE]

PsCatch(op, list, map) ==
  [list |-> list, map |-> IF op = "load" THEN RebuildMaps(list) ELSE map, rejects |-> FALSE]

\* What a call leaves when it resumes, as [list, map, rejects]; cause is how
\* the request ended ("answer", "reject", "timeout"), ans what the host
\* answered.
\*   load:   this.products = normalized; _rebuildMaps()
\*   set:    the same with the records that were passed
\*   fetch:  this.products.push(normalized); _productMap.set(name, normalized)
\*   upsert: Object.assign(existing, normalized) when findById finds the
\*           product now, else push and set
PsSettled(call, cause, ans, list, map) ==
  LET replaced(cat) ==
        [list |-> ListOf(cat), map |-> RebuildMaps(ListOf(cat)), rejects |-> FALSE]
      pushed(id, stock) ==
        [list |-> Append(list, [name |-> id, stock |-> stock]),
         map |-> [map EXCEPT ![id] = stock], rejects |-> FALSE]
  IN CASE call.op = "load" ->
            IF cause = "answer" THEN replaced(ans) ELSE PsCatch("load", list, map)
       [] call.op = "set" -> replaced(call.cat)
       [] call.op = "fetch" ->
            IF cause # "answer" THEN PsCatch("fetch", list, map)
            ELSE IF ans[call.id] # Absent THEN pushed(call.id, ans[call.id])
            ELSE [list |-> list, map |-> map, rejects |-> FALSE]
       [] call.op = "upsert" ->
            IF map[call.id] = Absent THEN pushed(call.id, call.cat[call.id])
            ELSE LET last == CHOOSE i \in DOMAIN list :
                               /\ list[i].name = call.id
                               /\ \A j \in DOMAIN list : list[j].name = call.id => j <= i
                 IN [list |-> [list EXCEPT ![last].stock = call.cat[call.id]],
                     map |-> [map EXCEPT ![call.id] = call.cat[call.id]],
                     rejects |-> FALSE]

PsFunction(op) ==
  CASE op = "load" -> "loadProductsSimple"
    [] op = "fetch" -> "fetchById"
    [] op = "set" -> "setProducts"
    [] op = "upsert" -> "upsertProduct"

PsResume(i, cause, ans) ==
  /\ i \in DOMAIN psCalls
  /\ LET r == PsSettled(psCalls[i], cause, ans, productList, products)
     IN /\ productList' = r.list
        /\ products' = r.map
        /\ rejected' = IF r.rejects THEN rejected \cup {PsFunction(psCalls[i].op)} ELSE rejected
  /\ psDone' = [op |-> psCalls[i].op, cause |-> cause]
  /\ psCalls' = RemoveAt(psCalls, i)
  /\ UNCHANGED <<cart, pendingChangedIds, saveTimeout, timers, storageCart, tasks, cartGrid,
                 miniCartAsync, completed, lastOp, unsaved, owed, watch, observed,
                 favVars, timeoutMs, presVars, catVars, pageVars, storageFault, faulted>>

\* the host settles the request of a suspended call: it answers (ok) or its
\* promise is rejected; the call resumes and runs to its end
PsSettle(i, ok, ans) == PsResume(i, IF ok THEN "answer" ELSE "reject", ans)

\* the timer _safeCall raced the request with fires first: the race rejects
\* with the timeout error
PsTimeout(i) ==
  /\ i \in DOMAIN psCalls
  /\ psCalls[i].timed
  /\ PsResume(i, "timeout", NoCat)

\* clearCache({ products: true })
PsClearCache ==
  /\ productList # <<>>
  /\ productList' = <<>>
  /\ products' = NoCat
  /\ psDone' = NoDone
  /\ UNCHANGED <<cart, pendingChangedIds, saveTimeout, timers, storageCart, tasks, cartGrid,
                 miniCartAsync, completed, lastOp, unsaved, owed, watch, observed,
                 favVars, psCalls, timeoutMs, presVars, catVars, pageVars, faultVars>>

\* new ProductService(foxEngine, { timeoutMs: t })
PsConstruct(t) ==
  /\ psCalls = <<>> /\ productList = <<>> /\ timeoutMs # t
  /\ timeoutMs' = t
  /\ psDone' = NoDone
  /\ UNCHANGED <<cartVars, favVars, productList, psCalls, presVars, catVars, pageVars, faultVars>>

\* ----------------------------------------------------------- Notifications
\* opts.maxVisible of the constructor's defaults
DefaultMaxVisible == 5

NoteIds == 1..MaxNotes

\* A notification: shown (show() was called for this id), attached (the node
\* is in the container), timer (the timeout of startTimer is pending),
\* removals (the reasons of the 320 ms timers of performRemove that are
\* pending), detach (a 320 ms timer of clearAll or _enforceMaxVisible that
\* only removes the node is pending), resolver (this._resolvers has the id),
\* resolved and closed (the reasons the promise resolver and cfg.onClose were
\* invoked with, in order).
NoNote == [shown |-> FALSE, attached |-> FALSE, timer |-> FALSE, removals |-> <<>>,
           detach |-> FALSE, resolver |-> FALSE, resolved |-> <<>>, closed |-> <<>>]

NotifInit == [idCounter |-> 1, maxVisible |-> DefaultMaxVisible, notes |-> [n \in NoteIds |-> NoNote]]

\* the other variables, which no notification touches
NotNotif == <<cartVars, favVars, productList, psVars, presVars, catVars, faultVars, gallery, checkout>>

\* new Notifications({ maxVisible })
NotifConstruct(max) ==
  /\ notif.idCounter = 1
  /\ notif.maxVisible # max
  /\ notif' = [notif EXCEPT !.maxVisible = max]
  /\ UNCHANGED NotNotif

\* resolver({ id, reason }) when this._resolvers has the id
Resolve(note, reason) ==
  IF note.resolver THEN [note EXCEPT !.resolved = Append(@, reason)] ELSE note

\* resolveAndCleanup(reason): the resolver is called and deleted, the timer
\* of this._timers is cleared, cfg.onClose is called
ResolveAndCleanup(note, reason) ==
  [Resolve(note, reason) EXCEPT !.resolver = FALSE, !.timer = FALSE,
                                !.closed = Append(@, reason)]

\* performRemove(reason): a node that left the container resolves at once,
\* else the node starts leaving, the timer is cleared and the 320 ms timer
\* that removes the node and resolves is armed
PerformRemove(note, reason) ==
  IF ~note.attached THEN ResolveAndCleanup(note, reason)
  ELSE [note EXCEPT !.timer = FALSE, !.removals = Append(@, reason)]

\* what _enforceMaxVisible and clearAll do to a node
Evicted(note) ==
  [Resolve(note, "evicted") EXCEPT !.resolver = FALSE, !.detach = TRUE]

Cleared(note) ==
  [Resolve(note, "cleared") EXCEPT !.resolver = FALSE, !.detach = TRUE, !.timer = FALSE]

\* _enforceMaxVisible(container, max): the first nodes.length - (max - 1)
\* nodes of the container
Overflowing(notes, max) ==
  LET nodes == {n \in NoteIds : notes[n].attached}
      overflow == Cardinality(nodes) - (max - 1)
  IN {n \in nodes : Cardinality({m \in nodes : m < n}) < overflow}

Called(note) == Len(note.resolved) < MaxCalled /\ Len(note.closed) < MaxCalled

\* show(message, { duration > 0, onClose }): the overflowing nodes are
\* evicted, the node is appended, the resolver registered, the timer started
NotifShow ==
  /\ notif.idCounter \in NoteIds
  /\ LET id == notif.idCounter
         out == Overflowing(notif.notes, notif.maxVisible)
     IN notif' = [notif EXCEPT
                    !.idCounter = id + 1,
                    !.notes = [n \in NoteIds |->
                                 IF n = id
                                 THEN [NoNote EXCEPT !.shown = TRUE, !.attached = TRUE,
                                                     !.timer = TRUE, !.resolver = TRUE]
                                 ELSE IF n \in out THEN Evicted(notif.notes[n])
                                 ELSE notif.notes[n]]]
  /\ UNCHANGED NotNotif

\* the step of one notification
NoteStep(n, note) ==
  /\ n \in NoteIds
  /\ notif.notes[n].shown
  /\ Called(notif.notes[n])
  /\ notif' = [notif EXCEPT !.notes[n] = note]
  /\ UNCHANGED NotNotif

\* handle.dismiss(), the close button ("manual") or the Escape key on the
\* node ("keyboard")
NotifDismiss(n, reason) ==
  /\ reason = "keyboard" => notif.notes[n].attached
  /\ Len(notif.notes[n].removals) < MaxRemovals
  /\ NoteStep(n, PerformRemove(notif.notes[n], reason))

\* the timeout of startTimer fires: performRemove('timeout')
NotifTimerFires(n) ==
  /\ notif.notes[n].timer
  /\ Len(notif.notes[n].removals) < MaxRemovals
  /\ NoteStep(n, PerformRemove([notif.notes[n] EXCEPT !.timer = FALSE], "timeout"))

\* mouseenter: pauseTimer clears a pending timer; mouseleave: resumeTimer
\* starts the timer for the remaining duration
NotifPause(n) ==
  /\ notif.notes[n].attached /\ notif.notes[n].timer
  /\ NoteStep(n, [notif.notes[n] EXCEPT !.timer = FALSE])

NotifResume(n) ==
  /\ notif.notes[n].attached /\ ~notif.notes[n].timer
  /\ NoteStep(n, [notif.notes[n] EXCEPT !.timer = TRUE])

\* the 320 ms timer of performRemove fires: the node is removed,
\* resolveAndCleanup(reason)
NotifRemovalFires(n) ==
  /\ notif.notes[n].removals # <<>>
  /\ NoteStep(n, ResolveAndCleanup([notif.notes[n] EXCEPT !.attached = FALSE, !.removals = Tail(@)],
                                   Head(notif.notes[n].removals)))

\* the 320 ms timer of clearAll or _enforceMaxVisible fires: the node is removed
NotifDetachFires(n) ==
  /\ notif.notes[n].detach
  /\ NoteStep(n, [notif.notes[n] EXCEPT !.attached = FALSE, !.detach = FALSE])

\* clearAll(): every node of the container
NotifClearAll ==
  /\ \E n \in NoteIds : notif.notes[n].attached /\ ~notif.notes[n].detach
  /\ notif' = [notif EXCEPT !.notes = [n \in NoteIds |->
                  IF notif.notes[n].attached THEN Cleared(notif.notes[n]) ELSE notif.notes[n]]]
  /\ UNCHANGED NotNotif

\* ----------------------------------------------------------------- Gallery
\* The images are the first n of one list of distinct sources, so an image is
\* known by its index, and the gallery holds images.length.  main is the
\* index whose src and data-index the main image has, NoImage before the
\* first swap.  jobs are the swaps in flight, in the order their timers were
\* armed: a job has its index, its stage, attached (the temporary image is in
\* the frame) and tmp (it is this._tmpImage).  The stage is "swap" for the
\* timer of a _simpleSwap; a _doAnimatedSwap is "loading" until its temporary
\* image loads, "running" while transitionend and the timeout are pending,
\* "ended" when only the timeout is.  The timer of _simpleSwap and the
\* transition both take transitionMs, the timeout 70 ms more.
NoImage == -1

GalleryInit ==
  [images |-> 0, circular |-> TRUE, current |-> 0, prevIndex |-> -1, animating |-> FALSE,
   main |-> NoImage, jobs |-> <<>>]

NotGallery == <<cartVars, favVars, productList, psVars, presVars, catVars, faultVars, notif, checkout>>

\* idx % n of JavaScript, whose sign is the sign of idx
JsMod(idx, n) == IF idx >= 0 THEN idx % n ELSE -((-idx) % n)

\* _clampIndex(idx)
ClampIndex(g, idx) ==
  IF g.images = 0 THEN 0
  ELSE IF g.circular THEN (JsMod(idx, g.images) + g.images) % g.images
  ELSE Max(0, Min(idx, g.images - 1))

\* _getDirection(prev, index)
GetDirection(g, prev, index) ==
  IF prev < 0 \/ prev = index \/ g.images <= 1 THEN "none"
  ELSE IF ~g.circular THEN (IF index > prev THEN "right" ELSE "left")
  ELSE IF (index - prev + g.images) % g.images <= (prev - index + g.images) % g.images
       THEN "right" ELSE "left"

\* _simpleSwap(src, index, item): the timer that sets the main image
SimpleSwap(g, index) ==
  [g EXCEPT !.jobs = Append(@, [index |-> index, stage |-> "swap", attached |-> FALSE, tmp |-> FALSE])]

\* the abort of show: the temporary image of the running animation is removed
AbortSwap(g) ==
  IF g.animating
  THEN [g EXCEPT !.animating = FALSE,
                 !.jobs = [j \in DOMAIN g.jobs |->
                             IF g.jobs[j].tmp THEN [g.jobs[j] EXCEPT !.attached = FALSE, !.tmp = FALSE]
                             ELSE g.jobs[j]]]
  ELSE g

\* _doAnimatedSwap(index, direction): the temporary image is appended and
\* starts loading
DoAnimatedSwap(g, index) ==
  [g EXCEPT !.animating = TRUE,
            !.jobs = Append([j \in DOMAIN g.jobs |-> [g.jobs[j] EXCEPT !.tmp = FALSE]],
                            [index |-> index, stage |-> "loading", attached |-> TRUE, tmp |-> TRUE])]

\* show(index) for a number
GalleryShow(g, indexOrThumb) ==
  LET index == ClampIndex(g, indexOrThumb)
      prevIndex == g.current
      direction == GetDirection(g, IF g.prevIndex >= 0 THEN g.prevIndex ELSE prevIndex, index)
      moved == [g EXCEPT !.prevIndex = prevIndex, !.current = index]
  IN IF g.images = 0 THEN g
     ELSE IF index = g.current /\ g.main = index THEN g
     ELSE IF direction = "none" THEN SimpleSwap(moved, index)
     ELSE DoAnimatedSwap(AbortSwap(moved), index)

\* cleanup of a job: its temporary image is removed, the main image gets the
\* job's source and index, the animation is over
Cleanup(g, j, stage) ==
  [g EXCEPT !.main = g.jobs[j].index, !.animating = FALSE,
            !.jobs = [k \in DOMAIN g.jobs |->
                        IF k = j THEN [g.jobs[k] EXCEPT !.attached = FALSE, !.tmp = FALSE, !.stage = stage]
                        ELSE [g.jobs[k] EXCEPT !.tmp = FALSE]]]

InFlight(g) == Len(g.jobs)

GalleryStep(g) ==
  /\ InFlight(g) <= MaxSwaps
  /\ gallery' = g
  /\ UNCHANGED NotGallery

\* new Gallery(root, null, { circular })
GalConstruct(circular) ==
  /\ gallery = GalleryInit
  /\ circular # gallery.circular
  /\ GalleryStep([gallery EXCEPT !.circular = circular])

\* setImages(images, { showFirst })
GalSetImages(n, showFirst) ==
  LET g == [gallery EXCEPT !.images = n]
  IN GalleryStep(IF n > 0 /\ showFirst THEN GalleryShow(g, 0) ELSE g)

\* show(index), next(), prev()
GalShow(index) == GalleryStep(GalleryShow(gallery, index))

GalNext == GalleryStep(GalleryShow(gallery, ClampIndex(gallery, gallery.current + 1)))

GalPrev == GalleryStep(GalleryShow(gallery, ClampIndex(gallery, gallery.current - 1)))

\* what is pending for a job after transitionMs, and after 70 ms more
Transition(job) == job.stage = "swap" \/ (job.stage = "running" /\ job.attached)

Timeout(job) == job.stage \in {"running", "ended"}

\* timers of one duration fire in the order they were armed, and a timeout
\* after every transition that started before it
Due(j, Blocks(_)) ==
  /\ j \in DOMAIN gallery.jobs
  /\ \A k \in 1..(j - 1) : ~Blocks(gallery.jobs[k])

BlocksTimeout(job) == Transition(job) \/ Timeout(job)

\* the timer of a _simpleSwap fires
GalSimpleSwapFires(j) ==
  /\ Due(j, Transition)
  /\ gallery.jobs[j].stage = "swap"
  /\ GalleryStep([gallery EXCEPT !.main = gallery.jobs[j].index, !.jobs = RemoveAt(@, j)])

\* handleLoad: the temporary image of job j has loaded, the transition
\* starts, transitionend is listened to and the timeout is armed
GalTmpLoads(j) ==
  /\ j \in DOMAIN gallery.jobs
  /\ gallery.jobs[j].stage = "loading"
  /\ GalleryStep([gallery EXCEPT !.jobs = Append(RemoveAt(@, j), [gallery.jobs[j] EXCEPT !.stage = "running"])])

\* onTransEnd: the transition of an attached temporary image ends
GalTransitionEnds(j) ==
  /\ Due(j, Transition)
  /\ gallery.jobs[j].stage = "running"
  /\ gallery.jobs[j].attached
  /\ GalleryStep(Cleanup(gallery, j, "ended"))

\* the timeout of handleLoad fires: cleanup if this._animating
GalSwapTimeout(j) ==
  /\ Due(j, BlocksTimeout)
  /\ Timeout(gallery.jobs[j])
  /\ ~Transition(gallery.jobs[j])
  /\ LET g == IF gallery.animating THEN Cleanup(gallery, j, "ended") ELSE gallery
     IN GalleryStep([g EXCEPT !.jobs = RemoveAt(g.jobs, j)])

\* ------------------------------------------------------------ CheckoutPage
\* constructor: cartItems, totalPrice, promoCode; bound is set once init has
\* bound the promo button
CheckoutInit == [cartItems |-> <<>>, totalPrice |-> 0, promoCode |-> "", bound |-> FALSE]

NotCheckout == <<cartVars, favVars, productList, psVars, presVars, catVars, faultVars, notif, gallery>>

\* the prices, quantities and promo codes tried
Prices == {10, 15, 100}

LineQtys == {1, 2}

PromoCodes == {"DISCOUNT10", "SALE"}

\* the sum of _renderCartItems: price * qty of every item
RECURSIVE CartTotal(_)
CartTotal(items) ==
  IF items = <<>> THEN 0 ELSE Head(items).price * Head(items).qty + CartTotal(Tail(items))

\* Math.round(totalPrice * 0.9) for a whole totalPrice: halves are rounded up
Discounted(totalPrice) == (9 * totalPrice + 5) \div 10

\* init(id): the items of the cart service are rendered, which recomputes
\* totalPrice from zero, and the events are bound
CheckoutOpen(items) ==
  /\ ~checkout.bound
  /\ checkout' = [checkout EXCEPT !.cartItems = items, !.totalPrice = CartTotal(items), !.bound = TRUE]
  /\ UNCHANGED NotCheckout

\* _onApplyPromo(): a click on the promo button with code in the input
OnApplyPromo(code) ==
  /\ checkout.bound
  /\ checkout' = [checkout EXCEPT !.promoCode = code,
                                  !.totalPrice = IF code = "DISCOUNT10" THEN Discounted(@) ELSE @]
  /\ UNCHANGED NotCheckout

\* ------------------------------------------------------------------- Init
\* After construction: no product loaded, an empty cart, nothing stored, no
\* grid attached.  Whether the mini cart renders asynchronously is a property
\* of the page.
Catalogs == [Ids -> Stocks \cup {Absent}]

Init ==
  /\ observed \in SUBSET {"completed", "lastOp", "unsaved", "owed", "watch", "favCall", "favSave",
                         "fault"}
  /\ products = [k \in Ids |-> Absent]
  /\ cart = <<>>
  /\ pendingChangedIds = {}
  /\ saveTimeout = 0
  /\ timers = {}
  /\ storageCart = <<>>
  /\ tasks = <<>>
  /\ cartGrid = FALSE
  /\ miniCartAsync \in BOOLEAN
  /\ completed = NoCompletion
  /\ lastOp = [op |-> "init", ret |-> FALSE, warned |-> FALSE]
  /\ unsaved = 0
  /\ owed = {}
  /\ watch = NoWatch
  /\ favOpts \in FavOptions
  /\ favImpl \in {"module", "checkout"}
  /\ favList = <<>>
  /\ favSet = {}
  /\ favLoads = <<>>
  /\ favCall = NoFavCall
  /\ wishDom = {}
  /\ wishRemoving = {}
  /\ wishRefreshTimer = FALSE
  /\ wishStep = "init"
  /\ favSaveTimer = FALSE
  /\ favDestroyed = FALSE
  /\ storageFavs = <<>>
  /\ favUnsaved = FALSE
  /\ favStep = "init"
  /\ productList = <<>>
  /\ psCalls = <<>>
  /\ psDone = NoDone
  /\ timeoutMs = DefaultTimeoutMs
  /\ storageFault = "none"
  /\ rejected = {}
  /\ faulted = {}
  /\ presenter = [updating |-> FALSE, queued |-> FALSE, queuedTargetId |-> NoId]
  /\ presRuns = <<>>
  /\ filters = NoFilters
  /\ shown = <<>>
  /\ notif = NotifInit
  /\ gallery = GalleryInit
  /\ checkout = CheckoutInit

\* the options the shop constructs the favorites with when it gives none
DefaultFavOpts ==
  /\ favOpts = [max |-> 0, overflow |-> "reject", debounce |-> TRUE]
  /\ favImpl = "module"

\* ---------------------------------------------------------- specifications
\* The cart and the catalog: the public calls, catalog reloads, the bulk
\* refresh; the mini cart renders synchronously, no grid, saves not observed.
NextCart ==
  \/ \E id \in Ids, q \in QtyArgs : Add(id, q)
  \/ \E id \in Ids, q \in QtyArgs : AddToCart(id, q)
  \/ \E id \in Ids : Remove(id)
  \/ \E id \in Ids, q \in QtyArgs : ChangeQty(id, q)
  \/ Clear
  \/ \E list \in Catalogs : LoadProductsSimple(list)
  \/ \E i \in 1..MaxTasks : ResumeFetch(i)

InitCart == Init /\ DefaultFavOpts /\ observed = {"lastOp"} /\ ~miniCartAsync

Spec == InitCart /\ [][NextCart]_vars

\* The update pass and its event: the calls, one product listing, the cart
\* page attaching its grid, every continuation of updateCartUI.
Listings == {[k \in Ids |-> IF k = "a" THEN MaxStock ELSE 1],
             [k \in Ids |-> IF k = "a" THEN 1 ELSE Absent]}

NextUI ==
  \/ \E id \in Ids, q \in QtyArgs : Add(id, q)
  \/ \E id \in Ids : Remove(id)
  \/ \E id \in Ids, q \in QtyArgs : ChangeQty(id, q)
  \/ Clear
  \/ SetDomRefs
  \/ \E list \in Listings : products = [k \in Ids |-> Absent] /\ LoadProductsSimple(list)
  \/ \E i \in 1..MaxTasks : ResumeFetch(i)
  \/ \E i \in 1..MaxTasks : ResumeMini(i)
  \/ \E i \in 1..MaxTasks : ResumeGrid(i)

InitUI == Init /\ DefaultFavOpts /\ observed = {"completed", "lastOp"}

SpecUI == InitUI /\ [][NextUI]_vars

\* A microtask continuation runs once the running job ends; the renderer and
\* the mini cart settle their promises; an armed timer fires once the job
\* queue lets it.
Fairness ==
  /\ WF_vars(\E i \in 1..MaxTasks : ResumeFetch(i))
  /\ WF_vars(\E i \in 1..MaxTasks : ResumeMini(i))
  /\ WF_vars(\E i \in 1..MaxTasks : ResumeGrid(i))
  /\ WF_vars(\E h \in TimerIds : SaveTimerFires(h))

NextEvents ==
  \/ \E id \in Ids, q \in QtyArgs : Add(id, q)
  \/ \E id \in Ids : Remove(id)
  \/ \E id \in Ids, q \in QtyArgs : ChangeQty(id, q)
  \/ Clear
  \/ SetDomRefs
  \/ \E i \in 1..MaxTasks : ResumeFetch(i)
  \/ \E i \in 1..MaxTasks : ResumeMini(i)
  \/ \E i \in 1..MaxTasks : ResumeGrid(i)
  \/ \E h \in TimerIds : SaveTimerFires(h)

InitEvents == Init /\ DefaultFavOpts /\ observed = {"owed"}

SpecEvents == InitEvents /\ [][NextEvents]_vars /\ Fairness

\* Persistence: the calls, destroy, the debounce timer.
NextSave ==
  \/ \E id \in Ids, q \in QtyArgs : Add(id, q)
  \/ \E id \in Ids : Remove(id)
  \/ \E id \in Ids, q \in QtyArgs : ChangeQty(id, q)
  \/ Clear
  \/ Destroy
  \/ \E i \in 1..MaxTasks : ResumeFetch(i)
  \/ \E i \in 1..MaxTasks : ResumeMini(i)
  \/ \E h \in TimerIds : SaveTimerFires(h)

InitSave == Init /\ DefaultFavOpts /\ observed = {"lastOp", "unsaved"}

SpecSave == InitSave /\ [][NextSave]_vars

SpecSaveLive == SpecSave /\ Fairness

\* Storage: the calls, another tab writing the cart key, the storage event,
\* loadFromStorage and the answers of fetchById.
TabCarts == {[i \in 1..n |-> e] : n \in 0..MaxStored, e \in StoredEntries}

Answers == [Ids -> {Absent, 1}]

NextSync ==
  \/ \E id \in Ids, q \in QtyArgs : Add(id, q)
  \/ \E id \in Ids : Remove(id)
  \/ \E id \in Ids, q \in QtyArgs : ChangeQty(id, q)
  \/ LoadFromStorage
  \/ OnStorageEvent
  \/ \E c \in TabCarts : OtherTabWrite(c)
  \/ \E i \in 1..MaxTasks : ResumeFetch(i)
  \/ \E i \in 1..MaxTasks, ans \in Answers : ResumeLoad(i, ans)

InitSync == Init /\ DefaultFavOpts /\ observed = {"lastOp", "watch"} /\ ~miniCartAsync

SpecSync == InitSync /\ [][NextSync]_vars

\* The favorites: the calls, destroy, the debounce timer.
NextFav ==
  \/ \E id \in FavIds : FavAdd(id)
  \/ \E id \in FavIds : FavRemove(id)
  \/ \E id \in FavIds : FavToggle(id)
  \/ FavClear
  \/ \E arr \in ImportArrays, replace \in BOOLEAN, persist \in BOOLEAN :
        FavImportFromArray(arr, replace, persist)
  \/ FavSaveTimerFires
  \/ FavDestroy

InitFav == Init /\ observed = {"favSave"} /\ ~miniCartAsync /\ favImpl = "module"

SpecFav == InitFav /\ [][NextFav]_vars /\ WF_vars(FavSaveTimerFires)

\* The favorites calls alone, each one recorded with what it returned and
\* emitted.
NextFavCalls ==
  \/ \E id \in FavIds : FavAdd(id)
  \/ \E id \in FavIds : FavRemove(id)
  \/ \E id \in FavIds : FavToggle(id)
  \/ FavClear
  \/ \E arr \in ImportArrays, replace \in BOOLEAN, persist \in BOOLEAN :
        FavImportFromArray(arr, replace, persist)
  \/ FavSaveTimerFires
  \/ FavDestroy

InitFavCalls ==
  Init /\ observed = {"favCall"} /\ ~miniCartAsync /\ favImpl = "module" /\ favOpts.debounce

SpecFavCalls == InitFavCalls /\ [][NextFavCalls]_vars

\* the same calls on either class of favorites
InitToggle ==
  /\ Init /\ observed = {"favCall"} /\ ~miniCartAsync
  /\ favOpts = [max |-> MaxFavs, overflow |-> "reject", debounce |-> TRUE]

SpecToggle == InitToggle /\ [][NextFavCalls]_vars

\* The favorites with their storage: the calls, loadFromStorage, the debounce
\* timer, other tabs writing the key.
NextFavOps ==
  \/ \E id \in FavIds : FavAdd(id)
  \/ \E id \in FavIds : FavRemove(id)
  \/ \E id \in FavIds : FavToggle(id)
  \/ FavClear
  \/ \E arr \in ImportArrays, replace \in BOOLEAN, persist \in BOOLEAN :
        FavImportFromArray(arr, replace, persist)
  \/ FavSaveTimerFires
  \/ FavLoadFromStorage
  \/ \E i \in 1..MaxFavLoads : FavResumeLoad(i)
  \/ \E list \in ImportArrays : FavOtherTabWrite(list)

InitFavOps == Init /\ observed = {} /\ ~miniCartAsync /\ favImpl = "module" /\ favOpts.debounce

SpecFavOps == InitFavOps /\ [][NextFavOps]_vars

\* One tab saving and loading its own favorites.
NextFavRound ==
  \/ \E id \in FavIds : FavAdd(id)
  \/ \E id \in FavIds : FavRemove(id)
  \/ \E id \in FavIds : FavToggle(id)
  \/ FavClear
  \/ \E arr \in ImportArrays, persist \in BOOLEAN : FavImportFromArray(arr, TRUE, persist)
  \/ FavSaveTimerFires
  \/ FavLoadFromStorage
  \/ \E i \in 1..MaxFavLoads : FavResumeLoad(i)

InitFavRound == Init /\ observed = {"favSave"} /\ ~miniCartAsync /\ favImpl = "module"

SpecFavRound == InitFavRound /\ [][NextFavRound]_vars

\* One tab saving and loading its own cart: add, the product listing, the
\* debounce timer, the page opened again, loadFromStorage and the answers of
\* fetchById.
NextRound ==
  \/ \E id \in Ids, q \in QtyArgs : Add(id, q)
  \/ \E list \in Listings : products = [k \in Ids |-> Absent] /\ LoadProductsSimple(list)
  \/ \E h \in TimerIds : SaveTimerFires(h)
  \/ LoadFromStorage
  \/ Reopen
  \/ \E i \in 1..MaxTasks : ResumeFetch(i)
  \/ \E i \in 1..MaxTasks, ans \in Answers : ResumeLoad(i, ans)

InitRound == Init /\ DefaultFavOpts /\ observed = {"lastOp"} /\ ~miniCartAsync

SpecRound == InitRound /\ [][NextRound]_vars

\* The page among other tabs: the cart and the favorites change and are
\* saved, another tab clears the storage, the storage events arrive and the
\* loads follow.
NextStorage ==
  \/ Add("a", 1)
  \/ \E h \in TimerIds : SaveTimerFires(h)
  \/ \E id \in Ids : FavAdd(id)
  \/ FavSaveTimerFires
  \/ OtherTabClear
  \/ StorageEvent("null")
  \/ \E i \in 1..MaxTasks : ResumeFetch(i)
  \/ \E i \in 1..MaxTasks, ans \in Answers : ResumeLoad(i, ans)
  \/ \E i \in 1..MaxFavLoads : FavResumeLoad(i)

InitStorage ==
  /\ Init
  /\ favOpts = [max |-> 0, overflow |-> "reject", debounce |-> TRUE]
  /\ observed = {}
  /\ ~miniCartAsync

SpecStorage == InitStorage /\ [][NextStorage]_vars

\* The wishlist page: the favorites change here and in another tab, the
\* storage events for their key arrive, the grid follows.
NextWish ==
  \/ \E list \in Listings : products = [k \in Ids |-> Absent] /\ LoadProductsSimple(list)
  \/ \E id \in Ids : FavAdd(id)
  \/ \E id \in Ids : FavRemove(id)
  \/ FavSaveTimerFires
  \/ \E list \in ImportArrays : Elems(list) \subseteq Ids /\ FavOtherTabWrite(list)
  \/ StorageEvent("favs")
  \/ \E i \in 1..MaxFavLoads : FavResumeLoad(i)
  \/ WishRenderGrid
  \/ \E id \in Ids : WishNodeRemoved(id)

SpecWish == InitStorage /\ [][NextWish]_vars

\* The product service alone: its calls in any interleaving, the host
\* answering or failing.
NextCatalog ==
  \/ PsLoadProductsSimple
  \/ \E cat \in Listings : PsSetProducts(cat)
  \/ \E id \in Ids : PsFetchById(id)
  \/ \E id \in Ids : PsUpsertProduct(id, MaxStock)
  \/ PsClearCache
  \/ \E i \in 1..MaxCalls, ok \in BOOLEAN, ans \in Answers : PsSettle(i, ok, ans)
  \/ \E i \in 1..MaxCalls : PsTimeout(i)

InitCatalog == Init /\ DefaultFavOpts /\ observed = {} /\ ~miniCartAsync

SpecCatalog == InitCatalog /\ [][NextCatalog]_vars

\* Failures: other tabs fill the storage, localStorage breaks and mends, the
\* cart and the favorites load, the product service asks the host, and the
\* host answers, rejects or stays silent until the timer fires.
FailAnswers == {[NoCat EXCEPT !["a"] = v] : v \in {Absent, 1, Failed}}

NextFail ==
  \/ OtherTabWrite(<<[name |-> "a", qty |-> MaxQty, stock |-> 0]>>)
  \/ FavOtherTabWrite(<<"a">>)
  \/ \E mode \in StorageFaults : StorageBreaks(mode)
  \/ StorageMends
  \/ LoadFromStorage
  \/ FavLoadFromStorage
  \/ \E i \in 1..MaxTasks : ResumeFetch(i)
  \/ \E i \in 1..MaxTasks, ans \in FailAnswers : ResumeLoad(i, ans)
  \/ \E i \in 1..MaxFavLoads : FavResumeLoad(i)
  \/ psCalls = <<>> /\ PsLoadProductsSimple
  \/ psCalls = <<>> /\ PsFetchById("a")
  \/ \E i \in 1..MaxCalls, ok \in BOOLEAN, ans \in FailAnswers \ {[NoCat EXCEPT !["a"] = Failed]} :
       PsSettle(i, ok, ans)
  \/ \E i \in 1..MaxCalls : PsTimeout(i)

InitFail == Init /\ DefaultFavOpts /\ observed = {"fault"} /\ ~miniCartAsync

SpecFail == InitFail /\ [][NextFail]_vars

\* The wishlist page that only listens: the catalog lists every product,
\* another tab writes the favorites key while this page is at rest, the event
\* is delivered, the favorites reload, cards leave and the grid is rendered.
\* With every product cached the reload waits for microtasks only and is over
\* before the refresh timer fires.
WishAtRest == favLoads = <<>> /\ wishRemoving = {} /\ ~wishRefreshTimer

FavLists == {l \in UNION {[1..n -> Ids] : n \in 0..MaxFavs} : \A i, j \in DOMAIN l : l[i] = l[j] => i = j}

NextWishSync ==
  \/ products = NoCat /\ LoadProductsSimple([k \in Ids |-> 1])
  \/ \E list \in FavLists : WishAtRest /\ FavOtherTabWrite(list)
  \/ products # NoCat /\ StorageEvent("favs")
  \/ \E i \in 1..MaxFavLoads : FavResumeLoad(i)
  \/ favLoads = <<>> /\ WishRenderGrid
  \/ \E id \in Ids : WishNodeRemoved(id)

InitWishSync == Init /\ DefaultFavOpts /\ observed = {"favSave"} /\ ~miniCartAsync

SpecWishSync == InitWishSync /\ [][NextWishSync]_vars

\* A tab that only listens: another tab writes well-formed carts, the storage
\* event is handled, the reload and the refresh resume, the save timer fires.
\* Nothing mutates the cart locally.
WellFormedCarts ==
  {c \in TabCarts : \A n \in DOMAIN c : c[n].qty >= 1 /\ FindCartIndexById(c, c[n].name) = n}

NextReload ==
  \/ \E c \in WellFormedCarts : OtherTabWrite(c)
  \/ OnStorageEvent
  \/ \E i \in 1..MaxTasks : ResumeFetch(i)
  \/ \E i \in 1..MaxTasks, ans \in Answers : ResumeLoad(i, ans)
  \/ \E h \in TimerIds : SaveTimerFires(h)

SpecReload == InitSync /\ [][NextReload]_vars

\* The example: sku1 (a) is listed with its stock, add, changeQty and remove
\* are called with the quantities of the example and with 1, for either id.
NextExample ==
  \/ LoadProductsSimple([k \in Ids |-> IF k = "a" THEN Sku1Stock ELSE 1])
  \/ \E id \in Ids, q \in {1, Sku1Add} : Add(id, q)
  \/ \E id \in Ids, q \in {1, Sku1Qty} : ChangeQty(id, q)
  \/ \E id \in Ids : Remove(id)
  \/ \E i \in 1..MaxTasks : ResumeFetch(i)

SpecExample == InitCart /\ [][NextExample]_vars

\* The host that may never answer: the service is constructed with a
\* timeoutMs option, one request at a time is in flight, the host answers,
\* rejects or stays silent, and the timer _safeCall armed fires.
TimeoutOptions == {-1, 0, 1, DefaultTimeoutMs}

NextTimeout ==
  \/ \E t \in TimeoutOptions : PsConstruct(t)
  \/ psCalls = <<>> /\ PsLoadProductsSimple
  \/ \E id \in Ids : psCalls = <<>> /\ PsFetchById(id)
  \/ PsClearCache
  \/ \E i \in 1..MaxCalls, ok \in BOOLEAN, ans \in Answers : PsSettle(i, ok, ans)
  \/ \E i \in 1..MaxCalls : PsTimeout(i)

\* setTimeout runs its callback once the delay has passed
TimerFairness == WF_vars(\E i \in 1..MaxCalls : PsTimeout(i))

SpecTimeout == InitCatalog /\ [][NextTimeout]_vars /\ TimerFairness

\* The presenter whose executions of ctx._updateCartUI end by their promise
\* being fulfilled or rejected.  An execution that is in flight ends at some
\* time.
NextRefresh ==
  \/ \E target \in Ids \cup {NoId} : PresUpdateUI(target)
  \/ \E type \in DispatchTypes, id \in Ids \cup {NoId} : PresDispatch(type, id)
  \/ \E i \in 1..MaxRuns : PresRunSettles(i)
  \/ \E i \in 1..MaxRuns : PresRunThrows(i)
  \/ FavSaveTimerFires

RefreshFairness == WF_vars(\E i \in 1..MaxRuns : PresRunSettles(i) \/ PresRunThrows(i))

SpecRefresh == InitCatalog /\ [][NextRefresh]_vars /\ RefreshFairness

\* The checkout page: opened on a cart, the promo button clicked at will
CartLines ==
  UNION {[1..n -> [price : Prices, qty : LineQtys]] : n \in 0..MaxLines}

NextCheckout ==
  \/ \E items \in CartLines : CheckoutOpen(items)
  \/ \E code \in PromoCodes : OnApplyPromo(code)

SpecCheckout == InitCatalog /\ [][NextCheckout]_vars

\* The gallery's timers, image loads and transitions in any order
GalleryTimers ==
  \/ \E j \in 1..MaxSwaps : GalSimpleSwapFires(j)
  \/ \E j \in 1..MaxSwaps : GalTmpLoads(j)
  \/ \E j \in 1..MaxSwaps : GalTransitionEnds(j)
  \/ \E j \in 1..MaxSwaps : GalSwapTimeout(j)

\* A gallery that is given its images once and then navigated
NextSwap ==
  \/ \E circular \in BOOLEAN : GalConstruct(circular)
  \/ \E n \in 1..MaxImages : gallery.images = 0 /\ GalSetImages(n, TRUE)
  \/ \E index \in -1..MaxImages : gallery.images > 0 /\ GalShow(index)
  \/ gallery.images > 0 /\ GalNext
  \/ gallery.images > 0 /\ GalPrev
  \/ GalleryTimers

SpecSwap == InitCatalog /\ [][NextSwap]_vars

\* A gallery whose images are replaced at any moment
NextGallery ==
  \/ \E circular \in BOOLEAN : GalConstruct(circular)
  \/ \E n \in 0..MaxImages, showFirst \in BOOLEAN : GalSetImages(n, showFirst)
  \/ \E index \in -1..MaxImages : GalShow(index)
  \/ GalNext
  \/ GalPrev
  \/ GalleryTimers

SpecGallery == InitCatalog /\ [][NextGallery]_vars

\* Notifications: shown, dismissed by the handle and by the keyboard, hovered,
\* cleared, evicted, their timers firing in any order
NextNotif ==
  \/ \E max \in {1, DefaultMaxVisible} : NotifConstruct(max)
  \/ NotifShow
  \/ \E n \in NoteIds, reason \in {"manual", "keyboard"} : NotifDismiss(n, reason)
  \/ \E n \in NoteIds : NotifTimerFires(n)
  \/ \E n \in NoteIds : NotifPause(n)
  \/ \E n \in NoteIds : NotifResume(n)
  \/ \E n \in NoteIds : NotifRemovalFires(n)
  \/ \E n \in NoteIds : NotifDetachFires(n)
  \/ NotifClearAll

SpecNotif == InitCatalog /\ [][NextNotif]_vars

\* The presenter: updateUI and dispatch called at any moment, the executions
\* of ctx._updateCartUI settling in any order.
NextPresenter ==
  \/ \E target \in Ids \cup {NoId} : PresUpdateUI(target)
  \/ \E type \in DispatchTypes, id \in Ids \cup {NoId} : PresDispatch(type, id)
  \/ \E i \in 1..MaxRuns : PresRunSettles(i)
  \/ FavSaveTimerFires

SpecPresenter == InitCatalog /\ [][NextPresenter]_vars

\* The catalog page of either class: it starts on a product list, the
\* visitor changes the search text, the category and the brand.
NextFilter ==
  \/ \E impl \in {"catalog", "shop"}, list \in CatLists : CatInit(impl, list)
  \/ \E term \in CatTerms : OnSearchInput(term)
  \/ \E c \in CatCategories \cup {<<>>} : OnCatChange(c)
  \/ \E b \in CatBrands \cup {<<>>, <<"a">>} : OnBrandChange(b)

SpecFilter == InitCatalog /\ [][NextFilter]_vars

\* ------------------------------------------------------------- properties
\* every updateCartUI pass that was started has completed
Settled == tasks = <<>>

\* the calls that change the cart
MutationOps == {"add", "addToCart", "remove", "changeQty", "clear"}

\* C1: after any sequence of add, remove and changeQty calls, each followed by
\* its updateCartUI pass, every cart item whose recorded stock is greater than
\* 0 has a qty less than or equal to that stock.
C1_QtyWithinRecordedStock ==
  Settled => \A i \in DOMAIN cart : cart[i].stock > 0 => cart[i].qty <= cart[i].stock

\* C3: when the quantity of an item present in the cart is changed to 0 with
\* changeQty(id, 0), the item is no longer present in the cart afterwards.
C3_ChangeQtyZeroRemoves ==
  [][\A id \in Ids : (id \in Names(cart) /\ ChangeQty(id, 0)) => id \notin Names(cart')]_vars

\* C4: ShopMatic.addToCart(id, qty) for a product with catalog stock s and
\* quantity c already in the cart adds exactly min(qty, s - c) units when
\* s - c > 0, shows a notification whenever fewer units than requested were
\* added, and returns false leaving the cart unchanged when s - c <= 0.
C4_AddToCartClampsToAvailable ==
  [][\A id \in Ids, q \in 1..MaxQty :
       (products[id] # Absent /\ AddToCart(id, q)) =>
         LET s == products[id]
             c == GetCartQtyById(cart, id)
         IN IF s - c > 0
            THEN /\ GetCartQtyById(cart', id) = c + Min(q, s - c)
                 /\ Min(q, s - c) < q => lastOp'.warned
            ELSE ~lastOp'.ret /\ cart' = cart]_vars

\* C2: the totalCount carried by every cart:updated event and by every value
\* returned from updateCartUI equals the sum of the qty fields of the cart
\* items carried in that same event or return value.
C2_TotalCountMatchesItems ==
  completed.fired =>
    /\ completed.evTotalCount = completed.evCartQty
    /\ completed.retTotalCount = completed.retCartQty

\* C5: after any sequence of add, remove, changeQty and loadFromStorage calls
\* with integer quantities (0 and negative ones included), every item present
\* in the cart has an integer qty of at least 1.
C5_QtyAtLeastOne ==
  \A i \in DOMAIN cart : cart[i].qty \in Nat /\ cart[i].qty >= 1

\* loadFromStorage has just replaced the cart by what it read, and the stored
\* entry of the item it kept has a quantity below 1
C5_LoadedNonPositiveQty ==
  /\ lastOp.op = "resumeLoad"
  /\ Len(cart) = 1
  /\ storageCart # <<>>
  /\ \A i \in DOMAIN storageCart : storageCart[i].name = cart[1].name /\ storageCart[i].qty < 1

\* C6: for every cart mutation of an item id, some cart:updated event
\* dispatched after the mutation lists id in its changedIds, whether or not a
\* cart grid is attached.
C6_MutatedIdIsListed ==
  \A id \in Ids : (id \in owed) ~> (id \notin owed)

\* C7: every cart mutation is eventually followed by a storage.saveCart call
\* (of the cart as it then is, which holds the mutation or what superseded
\* it), unless another mutation comes first and re-arms the debounce; also
\* when destroy() is called while the debounced save is pending.
C7_MutationEventuallySaved ==
  (unsaved > 0) ~> (unsaved = 0 \/ (lastOp.op \in MutationOps /\ lastOp.ret))

\* destroy() found a save pending and passed the cart to saveCart
C7_DestroySaved ==
  /\ lastOp.op = "destroy"
  /\ cart # <<>>
  /\ unsaved = 0
  /\ storageCart = SavedForm(cart)
  /\ timers = {}

\* C9: cart mutations whose saves are each scheduled before the timer armed
\* by the previous one has fired are saved once: a re-armed timer replaces the
\* one before it, so one timer at most is ever armed, and when it fires
\* saveCart gets the cart as it is after the last mutation and no other save
\* is left armed.
C9_BurstSavedOnce ==
  /\ Cardinality(timers) <= 1
  /\ lastOp.op = "save" => timers = {} /\ storageCart = SavedForm(cart)

\* two mutations have completed since the last save and one timer is armed
C9_BurstPending ==
  /\ Settled
  /\ unsaved >= 2
  /\ timers = {saveTimeout}

\* C10: an add, remove or changeQty applied while loadFromStorage or
\* updateCartUI is suspended at an await is still reflected in the in-memory
\* cart once the asynchronous operations have completed.
C10_NoLostUpdate ==
  (Settled /\ watch.id # NoId) => ((watch.id \in Names(cart)) = watch.present)

\* C8: every successful favorites mutation (add, remove, toggle, clear,
\* importFromArray with persist) is eventually followed by a saveFavs call
\* with the list as it then is, unless another mutation comes first and
\* re-arms the debounce; also when destroy() is called before the timer fires.
C8_FavMutationEventuallySaved ==
  favUnsaved ~> (~favUnsaved \/ favStep = "mutation")

\* C8 as the code has it: the same, unless destroy() was called before the
\* timer fired, which cancels the pending save.
C8_FavSavedUnlessDestroyed ==
  favUnsaved ~> (~favUnsaved \/ favStep = "mutation" \/ favDestroyed)

\* the debounce timer fired after a mutation and saveFavs got the list
C8_FavSaved ==
  /\ favStep = "save"
  /\ favList # <<>>
  /\ storageFavs = favList
  /\ ~favDestroyed

\* C11 (as stated): for every id, list and max/overflow configuration, two
\* toggle(id) calls in succession leave the set of favorite ids as it was.
ToggledTwice(id) ==
  LET r1 == ToggleResult(FavSt, id, favDestroyed, favImpl)
  IN ToggleResult([list |-> r1.list, set |-> r1.set], id, favDestroyed, favImpl)

C11_ToggleTwiceRestores ==
  \A id \in FavIds : Elems(ToggledTwice(id).list) = Elems(favList) /\ ToggledTwice(id).set = favSet

\* C11 (amended): two toggle(id) calls in succession leave the set of favorite
\* ids as it was, unless the first one evicts: id is not a favorite, the list
\* holds max ids and overflow is drop_oldest.
C11_ToggleTwiceRestoresUnlessEvicting ==
  \A id \in FavIds :
    ~(id \notin favSet /\ FavAtLimit(FavSt) /\ favOpts.overflow = "drop_oldest")
      => Elems(ToggledTwice(id).list) = Elems(favList) /\ ToggledTwice(id).set = favSet

\* the second of two toggles of one id has just removed what the first added
C11_ToggledTwice ==
  /\ favCall.op = "toggle" /\ favCall.repeat /\ favCall.emitted = {"remove"}
  /\ favOpts.max > 0 /\ favList # <<>>

\* C12: with a limit (max > 0) the favorites list never holds more than max
\* ids, whatever add, toggle, importFromArray and loadFromStorage calls were made.
C12_ListWithinMax == favOpts.max > 0 => Len(favList) <= favOpts.max

\* loadFromStorage has cut a longer stored list down to the limit
C12_LoadedListCut ==
  /\ favOpts.max > 0
  /\ favLoads = <<>>
  /\ Len(Dedupe(storageFavs)) > favOpts.max
  /\ favList = LastN(Dedupe(storageFavs), favOpts.max)
  /\ favSaveTimer

Pos(list, x) == CHOOSE i \in DOMAIN list : list[i] = x

ReplacesList ==
  \/ \E i \in 1..MaxFavLoads : FavResumeLoad(i)
  \/ \E arr \in ImportArrays, persist \in BOOLEAN : FavImportFromArray(arr, TRUE, persist)

OrderKept ==
  \A x, y \in Elems(favList') :
    /\ (x \in Elems(favList) /\ y \in Elems(favList) /\ Pos(favList, x) < Pos(favList, y))
         => Pos(favList', x) < Pos(favList', y)
    /\ (x \in Elems(favList) /\ y \notin Elems(favList)) => Pos(favList', x) < Pos(favList', y)

AfterCall(r) == [list |-> r.list, set |-> r.set]

ImportedTwice(arr) ==
  ImportResult(AfterCall(ImportResult(FavSt, arr, FALSE, TRUE)), arr, FALSE, TRUE)

C15_SecondCallChangesNothing ==
  /\ \A id \in FavIds :
       /\ AddResult(AfterCall(AddResult(FavSt, id, favDestroyed)), id, favDestroyed).list
            = AddResult(FavSt, id, favDestroyed).list
       /\ RemoveResult(AfterCall(RemoveResult(FavSt, id, favDestroyed)), id, favDestroyed).list
            = RemoveResult(FavSt, id, favDestroyed).list
  /\ ClearResult(AfterCall(ClearResult(FavSt, favDestroyed)), favDestroyed).list
       = ClearResult(FavSt, favDestroyed).list
  /\ \A arr \in ImportArrays :
       ImportedTwice(arr).list = ImportResult(FavSt, arr, FALSE, TRUE).list

\* C16: add(id) of an id that is already a favorite returns false, leaves the
\* list and the lookup set as they were, schedules no save and writes none,
\* and notifies no subscriber.
C16_AddOfFavoriteIsSilent ==
  [][\A id \in FavIds : (id \in favSet /\ FavAdd(id))
       => /\ ~favCall'.ret
          /\ favCall'.emitted = {}
          /\ favList' = favList
          /\ favSet' = favSet
          /\ favSaveTimer' = favSaveTimer
          /\ storageFavs' = storageFavs]_vars

\* add(id) has just refused an id of the list, with no save pending
C16_AddOfFavoriteRefused ==
  /\ favCall.op = "add"
  /\ favCall.id \in favSet
  /\ ~favCall.ret
  /\ favCall.emitted = {}
  /\ ~favDestroyed
  /\ ~favSaveTimer

\* C17: a cart saved with saveCart and then loaded with loadFromStorage has
\* the same item ids, the same quantities and the same order as the cart that
\* was saved.
ItemsOf(c) == [n \in 1..Len(c) |-> [name |-> c[n].name, qty |-> c[n].qty]]

C17_LoadedCartIsSavedCart ==
  [][\A i \in 1..MaxTasks, ans \in Answers :
       ResumeLoad(i, ans) => ItemsOf(cart') = ItemsOf(tasks[i].raw)]_vars

\* a cart of two items was saved, the page was opened again and fetchById
\* failed for both products: the quantity 2 that was stored has become 1
C17_QuantityLostOnFailedFetch ==
  /\ lastOp.op = "resumeLoad"
  /\ Len(storageCart) = 2
  /\ storageCart[1].qty = 2
  /\ storageCart[1].stock = 2
  /\ Len(cart) = 2
  /\ cart[1].name = storageCart[1].name
  /\ cart[1].qty = 1
  /\ products = [k \in Ids |-> Absent]

\* C18: a favorites list saved with saveFavs and then loaded with
\* loadFromStorage has the same ids in the same order as the list that was
\* saved.
C18_LoadedListIsSavedList ==
  [][\A i \in 1..MaxFavLoads :
       FavResumeLoad(i)
         => favList' = [n \in 1..Len(favLoads[i]) |-> favLoads[i][n].name]]_vars

\* loadFromStorage has just put back the two ids that were saved, over a list
\* that an import without persist had left different
C18_SavedListLoaded ==
  /\ favStep = "load"
  /\ favLoads = <<>>
  /\ Len(favList) = 2
  /\ favList = storageFavs
  /\ ~favSaveTimer

\* C19: a storage event whose key is null makes every listening module
\* reload from storage: ShopMatic starts cart.loadFromStorage() on the
\* persisted cart, the favorites start loadFromStorage() on the persisted
\* list, and each load, when it resumes, puts what it read in memory.
C19_NullKeyReloadsAll ==
  /\ [][StorageEvent("null")
          => /\ tasks' = Append(tasks, LoadTask(storageCart))
             /\ favLoads' = Append(favLoads, LoadFavsWithAvailability(storageFavs))]_vars
  /\ [][\A i \in 1..MaxFavLoads :
          FavResumeLoad(i)
            => favList' = Dedupe([n \in 1..Len(favLoads[i]) |-> favLoads[i][n].name])]_vars
  /\ [][\A i \in 1..MaxTasks, ans \in Answers :
          ResumeLoad(i, ans) => Names(cart') = Names(tasks[i].raw)]_vars

\* the storage was cleared and the event has arrived at a page whose
\* favorites are not empty and are not being reloaded
C19_NullKeyIgnored ==
  /\ favImpl = "checkout"
  /\ storageFavs = <<>>
  /\ favList # <<>>
  /\ favLoads = <<>>
  /\ \E i \in DOMAIN tasks : tasks[i].pc \in {"load", "loadfast"}

\* C20: on a storage event for the favorites key the wishlist starts the
\* removal of exactly the rendered ids that the newly persisted list does not
\* hold, and goes for a full refresh only when there is no such id.
C20_WishlistRemovesTheAbsent ==
  [][StorageEvent("favs")
       => /\ wishRemoving' = wishRemoving \cup (wishDom \ Elems(storageFavs))
          /\ wishDom' = wishDom
          /\ wishStep' = "refresh" <=> wishDom \subseteq Elems(storageFavs)
          /\ wishStep' = "remove" <=> ~(wishDom \subseteq Elems(storageFavs))]_vars

\* two cards are rendered, another tab has removed one of the two favorites,
\* and the event has started the removal of that card alone
C20_OneCardLeaving ==
  /\ wishStep = "remove"
  /\ Cardinality(wishDom) = 2
  /\ Cardinality(wishRemoving) = 1
  /\ wishRemoving = wishDom \ Elems(storageFavs)
  /\ ~wishRefreshTimer

\* C21: after any interleaving of loadProductsSimple, setProducts, fetchById,
\* upsertProduct and clearCache the product list holds at most one record per
\* product id, and findById(id) returns the listed record of that id, or null
\* when none is listed.
C21_OneRecordPerId ==
  /\ \A i, j \in DOMAIN productList : productList[i].name = productList[j].name => i = j
  /\ \A id \in Ids :
       IF \E i \in DOMAIN productList : productList[i].name = id
       THEN \E i \in DOMAIN productList :
              productList[i].name = id /\ productList[i].stock = products[id]
       ELSE products[id] = Absent

\* two fetchById calls for one product were in flight together and both have
\* pushed their record
C21_FetchedTwice ==
  /\ psCalls = <<>>
  /\ Len(productList) = 2
  /\ productList[1].name = productList[2].name

\* C22: no failure of the host request (rejection, timeout) or of local
\* storage (unavailable, throwing, unparsable, not an array) makes
\* loadProductsSimple, fetchById or the two loadFromStorage reject, and each
\* leaves its collection as it was or empty.
PsCallFailed ==
  /\ Len(psCalls') < Len(psCalls)
  /\ psDone'.op \in {"load", "fetch"}
  /\ psDone'.cause \in {"reject", "timeout"}

CartLoadResumed == LoadsInFlight = 1 /\ LoadsInFlight' = 0

CartLoadMetFault ==
  "cart" \in faulted /\ "cart" \notin faulted' /\ LoadsInFlight' < LoadsInFlight

FavLoadMetFault ==
  "favs" \in faulted /\ "favs" \notin faulted' /\ Len(favLoads') < Len(favLoads)

C22_FailureLeavesPreviousOrEmpty ==
  [][/\ rejected' = {}
     /\ PsCallFailed => productList' \in {productList, <<>>}
     /\ CartLoadMetFault => cart' \in {cart, <<>>}
     /\ CartLoadResumed /\ psDone'.cause = "reject" => cart' \in {cart, <<>>}
     /\ FavLoadMetFault => favList' \in {favList, <<>>}]_vars

\* C22 as the code has it: none of the four rejects; a failed request leaves
\* the product list as it was; a load that found the storage at fault leaves
\* the cart and the favorites empty.  (A load whose storage read succeeded
\* and whose product requests failed puts the stored entries in the cart.)
C22_FailureIsNeverFatal ==
  [][/\ rejected' = {}
     /\ PsCallFailed => productList' = productList
     /\ CartLoadMetFault => cart' = <<>>
     /\ FavLoadMetFault => favList' = <<>>]_vars

C22_TimedOutLoadKeptList ==
  /\ psDone = [op |-> "load", cause |-> "timeout"]
  /\ productList # <<>>
  /\ rejected = {}

\* C23: after every cart operation the cart holds one item per product id at
\* most, and add of an id that is in the cart creates no second item: when
\* the call goes through, the item that was there has the quantity added.
OneItemPerId(c) == \A i, j \in DOMAIN c : c[i].name = c[j].name => i = j

C23_OneItemPerId ==
  [][/\ OneItemPerId(cart')
     /\ \A id \in Ids, q \in QtyArgs :
          Add(id, q) /\ FindCartIndexById(cart, id) > 0
          => /\ Names(cart') = Names(cart)
             /\ Len(cart') = Len(cart)
             /\ lastOp'.ret
                => GetCartQtyById(cart', id) = GetCartQtyById(cart, id) + Max(1, q)]_vars

\* C24: at most one execution of ctx._updateCartUI started by
\* CartPresenter.updateUI is in flight at any time.
C24_OneRunInFlight == Len(presRuns) <= 1

\* the execution started from the finally block is in flight, _updating is
\* false, and updateUI has started another one
C24_TwoRunsInFlight ==
  /\ Len(presRuns) = 2
  /\ presRuns[1].stage = "finally"
  /\ presRuns[2].stage = "try"

\* C25: the text search keeps a product exactly when the lower-cased search
\* term is a substring of the product's name, of its description or of its
\* brand (checked where the category and the brand control are empty).
MatchesNameDescriptionBrand(p, s) ==
  \/ Includes(ToLowerCase(p.name), s)
  \/ Includes(ToLowerCase(p.short), s)
  \/ Includes(ToLowerCase(p.brand), s)

C25_SearchMatchesNameDescriptionBrand ==
  filters.category = <<>> /\ filters.brand = <<>>
  => \A i \in DOMAIN filters.list :
       (filters.list[i] \in Elems(shown))
       <=> MatchesNameDescriptionBrand(filters.list[i], SearchTerm(filters))

\* C26: for a fixed product list and fixed search, category and brand values
\* the three filters applied in any order select the set of products the
\* catalog filter function shows.
C26_FilterOrderIsIrrelevant ==
  LET f == filters
      S(l) == SearchFilter(f.impl, l, f)
      C(l) == CategoryFilter(f.impl, l, f)
      B(l) == BrandFilter(f.impl, l, f)
  IN /\ Elems(B(C(S(f.list)))) = Elems(shown)
     /\ Elems(C(B(S(f.list)))) = Elems(shown)
     /\ Elems(B(S(C(f.list)))) = Elems(shown)
     /\ Elems(S(B(C(f.list)))) = Elems(shown)
     /\ Elems(C(S(B(f.list)))) = Elems(shown)
     /\ Elems(S(C(B(f.list)))) = Elems(shown)

\* all three controls are set and the filters keep one product of two
C26_ThreeFiltersKeepOne ==
  /\ SearchTerm(filters) # <<>>
  /\ filters.category # <<>>
  /\ filters.brand # <<>>
  /\ Len(filters.list) = 2
  /\ Len(shown) = 1
  /\ shown[1] = filters.list[2]

\* C27: in both classes of favorites toggle(id) returns true exactly when id
\* is a favorite after the call.
C27_ToggleReturnsMembership ==
  [][favCall'.op = "toggle" => (favCall'.ret <=> favCall'.id \in favSet')]_vars

\* toggle has removed the id and returned true
C27_ToggleTrueAfterRemoval ==
  /\ favCall.op = "toggle"
  /\ favCall.ret
  /\ favCall.id \notin favSet
  /\ favImpl = "checkout"
  /\ ~favDestroyed

\* C28: with an empty cart and sku1 in stock 5, add("sku1", 3) leaves one
\* item of quantity 3; changeQty("sku1", 10) then leaves quantity 5;
\* remove("sku1") then leaves the cart empty.
Sku1Item(qty) == <<[name |-> "a", qty |-> qty, stock |-> Sku1Stock]>>

C28_AddChangeQtyRemove ==
  [][products["a"] = Sku1Stock
     => /\ cart = <<>> /\ Add("a", Sku1Add) => cart' = Sku1Item(Sku1Add)
        /\ cart = Sku1Item(Sku1Add) /\ ChangeQty("a", Sku1Qty) => cart' = Sku1Item(Sku1Stock)
        /\ cart = Sku1Item(Sku1Stock) /\ Remove("a") => cart' = <<>>]_vars

\* changeQty has cut the quantity asked for to the stock, with a warning
C28_QuantityCutToStock ==
  /\ lastOp.op = "changeQty"
  /\ lastOp.warned
  /\ cart = Sku1Item(Sku1Stock)

\* C29: after any sequence of add, remove and changeQty no item of the cart
\* has a quantity above the stock recorded on that item, whatever that stock
\* is, items added while the product was unknown included.
C29_NoItemAboveItsStock ==
  Settled => \A i \in DOMAIN cart : ~(cart[i].qty > cart[i].stock)

\* an item of a product the service does not know stays in the cart with stock 0
C29_UnknownProductInCart ==
  /\ Settled
  /\ \E i \in DOMAIN cart : products[cart[i].name] = Absent /\ cart[i].stock = 0 /\ cart[i].qty >= 1

\* C30: every request issued through _safeCall settles: when the host never
\* answers, the timer rejects it after timeoutMs, so loadProductsSimple and
\* fetchById always eventually resolve.
C30_EveryRequestSettles ==
  (psCalls # <<>>) ~> (psCalls = <<>>)

\* C30 as the code has it: the request settles when the timeoutMs option is
\* not negative; a negative timeoutMs arms no timer.
C30_RequestSettlesUnlessTimeoutNegative ==
  (psCalls # <<>> /\ timeoutMs >= 0) ~> (psCalls = <<>> /\ psDone.op \in {"load", "fetch"})

\* fetchById has ended by the timeout of a service constructed with timeoutMs 0
C30_FetchTimedOutByDefault ==
  /\ timeoutMs = 0
  /\ psCalls = <<>>
  /\ psDone = [op |-> "fetch", cause |-> "timeout"]

\* C31: of the updateUI calls that arrive while a refresh is running, the
\* follow-up refresh is global when any of them asked for a global refresh and
\* otherwise targets the id of the first of them: the first queued call sets
\* the queued target to its own target, a later one changes it only to
\* global, and the follow-up refresh is started with the queued target.
C31_FollowUpTargetsFirstQueuedId ==
  [][/\ \A t \in Ids \cup {NoId} :
          presenter.updating /\ PresUpdateUI(t)
          => presenter'.queuedTargetId =
               IF presenter.queued /\ t # NoId THEN presenter.queuedTargetId ELSE t
     /\ \A i \in DOMAIN presRuns :
          presRuns[i].stage = "try" /\ presenter.queued /\ PresRunSettles(i)
          => presRuns'[Len(presRuns')] = [target |-> presenter.queuedTargetId, stage |-> "finally"]]_vars

\* a follow-up refresh is in flight
C31_FollowUpRuns ==
  \E i \in DOMAIN presRuns : presRuns[i].stage = "finally"

\* C32: a tab that handles the storage events of the cart key and mutates
\* nothing itself never writes a cart that differs from the one the other tab
\* persisted: while its reload is in flight the cart it held before is not
\* written back.
C32_ReloadingTabWritesNothingElse ==
  [][\A h \in TimerIds :
       LoadsInFlight > 0 /\ SaveTimerFires(h) => storageCart' = storageCart]_vars

\* the save timer has fired while the reload was waiting for the host
C32_SavedDuringReload ==
  /\ lastOp = Internal("save")
  /\ LoadsInFlight > 0

\* C33: _dedupeCart leaves a cart of pairwise distinct ids as it is (same
\* items, same quantities, same order): the cart add and changeQty hand to
\* updateCartUI, and with it the quantity they stored, comes out of
\* _dedupeCart unchanged however many items the cart holds.
C33_DedupeKeepsDistinctCart ==
  [][\A id \in Ids, q \in QtyArgs :
       LET added == AddRawEntry(cart, id, q, products[id])
           idx == FindCartIndexById(cart, id)
           changed == [cart EXCEPT ![idx] = ChangedQty(cart[idx], q, products[id]).item]
       IN /\ Add(id, q) /\ added.ok /\ OneItemPerId(added.cart)
             => DedupeCart(added.cart) = added.cart
          /\ ChangeQty(id, q) /\ idx > 0 /\ OneItemPerId(changed)
             => DedupeCart(changed) = changed]_vars

\* two items with distinct ids, one of them of a product that is not known
C33_TwoDistinctItems ==
  /\ Len(cart) = 2
  /\ OneItemPerId(cart)
  /\ \E i \in DOMAIN cart : cart[i].stock = 0

\* C34: once the wishlist has handled the storage event of the favorites key
\* and every removal and refresh it started has completed, the ids of the
\* cards in the grid are the ids of the persisted favorites list, also when
\* the other tab removed ids and added others.
C34_GridShowsPersistedFavorites ==
  /\ wishStep \in {"removed", "render"}
  /\ favStep # "otherTab"
  /\ WishAtRest
  /\ \A k \in Ids : products[k] # Absent
  => wishDom = Elems(storageFavs)

\* the last card the other tab removed has left the grid
C34_RemovalsCompleted ==
  /\ wishStep = "removed"
  /\ favStep # "otherTab"
  /\ WishAtRest
  /\ \A k \in Ids : products[k] # Absent

\* C35: add(id, qty) for an id that is in the cart, where the quantity of the
\* item plus qty exceeds the stock of the product (stock > 0), returns false
\* and leaves the item and the rest of the cart as they were; no save is
\* scheduled and no refresh (hence no cart:updated event) is started.
C35_AddBeyondStockIsRefused ==
  [][\A id \in Ids, q \in QtyArgs :
       /\ id \in Names(cart)
       /\ products[id] \notin {Absent, 0}
       /\ GetCartQtyById(cart, id) + Max(1, q) > products[id]
       /\ Add(id, q)
       => /\ lastOp' = Op("add", FALSE, TRUE)
          /\ cart' = cart
          /\ pendingChangedIds' = pendingChangedIds
          /\ saveTimeout' = saveTimeout /\ timers' = timers
          /\ tasks' = tasks
          /\ storageCart' = storageCart]_vars

\* an add was refused with a warning while every product is in stock: the id
\* was in the cart at the full stock
C35_RefusedAtFullStock ==
  /\ lastOp = Op("add", FALSE, TRUE)
  /\ \A k \in Ids : products[k] \notin {Absent, 0}
  /\ \E i \in DOMAIN cart : cart[i].qty = products[cart[i].name]

\* C36: for every notification the promise resolver and the onClose callback
\* are each invoked exactly once and with the same reason, whatever happens
\* to it: neither is invoked twice, the reasons agree, and a notification that
\* is gone with nothing left pending has had both invoked.
NoteDone(note) ==
  note.shown /\ ~note.attached /\ ~note.timer /\ note.removals = <<>> /\ ~note.detach

C36_ResolvedAndClosedOnce ==
  \A n \in NoteIds :
    LET note == notif.notes[n] IN
    /\ Len(note.resolved) <= 1
    /\ Len(note.closed) <= 1
    /\ note.resolved # <<>> /\ note.closed # <<>> => note.resolved[1] = note.closed[1]
    /\ NoteDone(note) => Len(note.resolved) = 1 /\ Len(note.closed) = 1

\* a notification is gone after dismiss() was called twice
C36_DismissedTwice ==
  \E n \in NoteIds : NoteDone(notif.notes[n]) /\ notif.notes[n].closed = <<"manual", "manual">>

\* C37: once every pending image load, timer and transition has completed, the
\* main image shows images[current] (source and data-index) and no swap
\* animation is in progress, whatever show, next and prev calls were made,
\* calls during a swap included.
C37_MainImageIsCurrentAtRest ==
  gallery.images > 0 /\ InFlight(gallery) = 0
    => gallery.main = gallery.current /\ ~gallery.animating

\* show was called while an animated swap was loading, and swapped without it
C37_ShownDuringSwap ==
  \E j, k \in DOMAIN gallery.jobs :
    /\ j < k
    /\ gallery.jobs[j].stage = "loading" /\ gallery.jobs[j].attached
    /\ gallery.jobs[k].stage = "swap"

\* C38: whenever the gallery holds at least one image, 0 <= current <
\* images.length, after any sequence of setImages, show, next and prev, for
\* circular and non-circular galleries.
C38_CurrentWithinImages ==
  gallery.images >= 1 => 0 <= gallery.current /\ gallery.current < gallery.images

\* the images were replaced by fewer while a later one was shown
C38_FewerImagesSet ==
  gallery.images >= 1 /\ gallery.images < MaxImages /\ gallery.prevIndex >= gallery.images

\* C39: applying the promo code DISCOUNT10 any number of times leaves the
\* total at 90% (rounded) of the undiscounted total of the cart.
C39_DiscountAppliedOnce ==
  checkout.promoCode = "DISCOUNT10"
    => checkout.totalPrice = Discounted(CartTotal(checkout.cartItems))

\* the code was applied to a cart that costs something, and took 10% off
C39_TenPercentOff ==
  /\ checkout.promoCode = "DISCOUNT10"
  /\ CartTotal(checkout.cartItems) = 100
  /\ checkout.totalPrice = 90

\* C40: every updateUI request that arrives while a refresh is running (it
\* sets _queued) is eventually followed by an execution of ctx._updateCartUI
\* that starts after the request, also when the running refresh throws: the
\* queued request is taken up at some time, and the step that takes it up
\* starts an execution.
C40_QueuedRequestIsRefreshed ==
  /\ presenter.queued ~> ~presenter.queued
  /\ [][presenter.queued /\ ~presenter'.queued
        => /\ presRuns' # <<>>
           /\ presRuns'[Len(presRuns')].stage = "finally"
           /\ \A i \in DOMAIN presRuns : presRuns[i].stage = "finally" => Len(presRuns') = Len(presRuns)]_vars

\* the refresh that ran when a request came threw, and the execution for the
\* request runs
C40_FollowUpAfterThrow ==
  /\ rejected = {"_updateCartUI"}
  /\ ~presenter.updating /\ ~presenter.queued
  /\ Len(presRuns) = 1
  /\ presRuns[1].stage = "finally"
====
